---- MODULE Spec2Model ----
(***************************************************************************)
(* Model of the RDS-snapshot restore tool (Go package dbrestore):          *)
(*   - dag.FKeysGraph: the foreign-key graph, IsAcyclic, TopologicalSort   *)
(*   - target.DbWriter.GetTablesOrdered: the table ordering and its check  *)
(*   - main's table loop and target.DbWriter.WriteTable: the per-table     *)
(*     transactional load                                                  *)
(* Table names are modelled as the naturals 1..MaxName; their numeric      *)
(* order stands for the lexicographic order of the Go strings, and 0       *)
(* stands for the empty string (the name of the sentinel node).            *)
(***************************************************************************)
EXTENDS Naturals, Integers, Sequences, FiniteSets, TLC

\* Number of distinct table names the model draws from.
MaxName == 3
\* Largest number of distinct (parent, child) keys AddChild may create.
MaxEdges == 3

Names == 1..MaxName

VARIABLES
    Nodes,        \* FKeysGraph.Nodes: 0..n -> Node, index 0 is the sentinel
    Graph,        \* FKeysGraph.Graph: name -> index, defined on the known names
    phase,        \* position of the caller that builds and uses the graph
    acyclicRes,   \* <<>> or <<b>>: the value IsAcyclic returned
    sortRes,      \* <<>> or <<r>>: the value TopologicalSort returned
    orderedRes,   \* <<>> or <<r>>: the values GetTablesOrdered returned
    conf,         \* config.Config: the fields the table loop reads
    mainPc,       \* position of main: "idle", "start", "loop", "call", "done", "crashed"
    ti,           \* main's loop over tables: position of the next table
    wt,           \* the running WriteTable call: its position and its locals
    rows,         \* database: table -> rows the loader's connection sees
    committed,    \* database: table -> rows that are committed
    res,          \* per table: the course and the outcome of its WriteTable call
    callSeq,      \* the tables WriteTable was called for, in call order
    loaded,       \* the tables main logged as "Loaded table data"
    tr,           \* the TruncateAllTables call of main: position, locals, result, course
    csv,          \* one row on its way through the CSV bridge and the COPY decoder
    rd,           \* one ParquetReader, its producer goroutine and its consumer
    br,           \* the CSV bridge: its two stage goroutines and its two pipes
    fn            \* a call of a function checked on its own: arguments, position, result

graphVars == <<Nodes, Graph, phase, acyclicRes, sortRes, orderedRes>>

loadVars == <<conf, mainPc, ti, wt, rows, committed, res, callSeq, loaded, tr>>

ioVars == <<csv, rd, br, fn>>

vars == <<graphVars, loadVars, ioVars>>

-----------------------------------------------------------------------------
(* Generic helpers *)

\* The elements of a finite set of naturals in ascending order (sort.Strings).
RECURSIVE SortedSeq(_)
SortedSeq(S) ==
    IF S = {} THEN <<>>
    ELSE LET m == CHOOSE x \in S : \A y \in S : x <= y
         IN <<m>> \o SortedSeq(S \ {m})

Range(s) == {s[i] : i \in 1..Len(s)}

\* Position of x in the sequence s (0 when absent): a map from value to index.
IndexOf(s, x) == IF \E i \in 1..Len(s) : s[i] = x THEN CHOOSE i \in 1..Len(s) : s[i] = x ELSE 0

-----------------------------------------------------------------------------
(* dag.Node and dag.FKeysGraph *)

NewDagNode == [Index |-> 0, Name |-> 0, InDegree |-> 0, SelfCycle |-> FALSE,
               Children |-> <<>>, Error |-> <<>>]

NewFKeysGraph == [Nodes |-> [i \in {0} |-> NewDagNode], Graph |-> <<>>]

\* len(g.Nodes)
LenNodes(g) == Cardinality(DOMAIN g.Nodes)

\* g.Graph[name]: a missing key reads as 0
GraphIndex(g, name) == IF name \in DOMAIN g.Graph THEN g.Graph[name] ELSE 0

GetNodeCount(g) == IF LenNodes(g) <= 1 THEN 0 ELSE LenNodes(g) - 1

GetGraphSize(g) == Cardinality(DOMAIN g.Graph)

\* The names that are keys of node.Children
ChildNames(node) == DOMAIN node.Children

\* The error AddNode returns: the name is already in the graph
AddNodeErr(g, name) == GraphIndex(g, name) > 0

\* An AddNode without the check for the name
AddNode_NoCheck(g, name) ==
    LET index == LenNodes(g)
        node  == [NewDagNode EXCEPT !.Index = index, !.Name = name]
    IN [Nodes |-> [i \in 0..index |-> IF i = index THEN node ELSE g.Nodes[i]],
        Graph |-> [n \in DOMAIN g.Graph \cup {name} |-> IF n = name THEN index ELSE g.Graph[n]]]

\* The graph after AddNode: a name already in the graph changes nothing, a new one gets a
\* node appended and its index recorded.
AddNode(g, name) ==
    IF AddNodeErr(g, name) THEN g
    ELSE LET index == LenNodes(g)
             node  == [NewDagNode EXCEPT !.Index = index, !.Name = name]
         IN [Nodes |-> [i \in 0..index |-> IF i = index THEN node ELSE g.Nodes[i]],
             Graph |-> [n \in DOMAIN g.Graph \cup {name} |->
                           IF n = name THEN index ELSE g.Graph[n]]]

\* AddChild: a new key gets the one-element list make([]T, 1); the appended list is
\* assigned to the local variable only, the map keeps what it had.
AddChild(node, name, relation) ==
    IF name \in DOMAIN node.Children
    THEN node
    ELSE [node EXCEPT !.Children =
            [n \in DOMAIN node.Children \cup {name} |->
                IF n = name THEN <<0>> ELSE node.Children[n]]]

\* Number of (parent, child) keys in the graph
EdgeCount(g) ==
    LET RECURSIVE Sum(_)
        Sum(S) == IF S = {} THEN 0
                  ELSE LET i == CHOOSE x \in S : TRUE
                       IN Cardinality(ChildNames(g.Nodes[i])) + Sum(S \ {i})
    IN Sum(DOMAIN g.Nodes)

\* CalculateInDegree: one increment per (known parent, child key) whose child is a known node.
CalculateInDegree(g) ==
    [g EXCEPT !.Nodes =
        [i \in DOMAIN g.Nodes |->
            [g.Nodes[i] EXCEPT !.InDegree =
                @ + Cardinality({p \in DOMAIN g.Graph :
                                   /\ g.Nodes[i].Name \in ChildNames(g.Nodes[g.Graph[p]])
                                   /\ GraphIndex(g, g.Nodes[i].Name) = i})]]]

-----------------------------------------------------------------------------
(* IsAcyclic / dfs.  Go iterates a map in an unspecified order, so each     *)
(* loop over g.Graph or node.Children may take its keys in any order: the  *)
(* operators return the set of all outcomes.                               *)

RECURSIVE dfs(_, _, _, _)
RECURSIVE dfsNeighbors(_, _, _, _, _)

\* dfsNeighbor with the exemption of self-edges left out.
dfsNeighbor_SelfEdgeIsCycle(g, index, neighborName, visited, recStack) ==
    LET nb == GraphIndex(g, neighborName)
    IN IF nb = 0
       THEN {[ret |-> TRUE, visited |-> visited]}
       ELSE IF nb \notin visited
       THEN dfs(g, nb, visited, recStack)
       ELSE {[ret |-> ~(\E k \in 1..Len(recStack) : recStack[k] = nb),
              visited |-> visited]}

\* One iteration of the loop over node.Children, for the key neighborName.
\* The set of possible [ret, visited] after it.
dfsNeighbor(g, index, neighborName, visited, recStack) ==
    LET nb == GraphIndex(g, neighborName)
    IN IF nb = 0
       THEN {[ret |-> TRUE, visited |-> visited]}
       ELSE IF nb \notin visited
       THEN dfs(g, nb, visited, recStack)
       ELSE {[ret |-> ~(/\ \E k \in 1..Len(recStack) : recStack[k] = nb
                       /\ nb # index),
              visited |-> visited]}

\* The loop over node.Children of dfs, for the keys kids not yet taken.
dfsNeighbors(g, index, kids, visited, recStack) ==
    IF kids = {} THEN {[ret |-> TRUE, visited |-> visited]}
    ELSE UNION {
           UNION {
             {[ret |-> one.ret /\ rest.ret, visited |-> rest.visited] :
                rest \in dfsNeighbors(g, index, kids \ {k}, one.visited, recStack)} :
             one \in dfsNeighbor(g, index, k, visited, recStack)} :
           k \in kids}

\* dfs(index, visited, recStack): the set of possible [ret, visited].
dfs(g, index, visited, recStack) ==
    LET rs  == Append(recStack, index)
        top == Len(rs) > 0 /\ rs[Len(rs)] = index
    IN {[ret |-> r.ret /\ top, visited |-> r.visited] :
          r \in dfsNeighbors(g, index, ChildNames(g.Nodes[index]), visited \cup {index}, rs)}

\* The loop of IsAcyclic over g.Graph, for the names starts not yet taken.
RECURSIVE IsAcyclicLoop(_, _, _)
IsAcyclicLoop(g, starts, visited) ==
    IF starts = {} THEN {TRUE}
    ELSE UNION {
           IF g.Graph[n] \in visited
           THEN IsAcyclicLoop(g, starts \ {n}, visited)
           ELSE UNION {{r.ret /\ rest : rest \in IsAcyclicLoop(g, starts \ {n}, r.visited)} :
                         r \in dfs(g, g.Graph[n], visited, <<>>)} :
           n \in starts}

IsAcyclic_Always(g) == {TRUE}

\* The set of values IsAcyclic may return, over all map iteration orders.
IsAcyclic(g) == IsAcyclicLoop(g, DOMAIN g.Graph, {})

-----
(* TopologicalSort / dfsSort *)

RECURSIVE dfsSort(_, _, _, _)
RECURSIVE dfsSortChildren(_, _, _, _)

\* A loop over sortedChildren that appends a leaf-only child without looking at visited
dfsSortChildren_LeafAgain(g, kids, visited, stack) ==
    IF kids = <<>> THEN [visited |-> visited, stack |-> stack]
    ELSE
      LET childName == Head(kids)
          child     == GraphIndex(g, childName)
      IN IF child > 0
         THEN IF g.Nodes[child].Name \notin visited
              THEN LET sub == dfsSort(g, child, visited, stack)
                   IN dfsSortChildren(g, Tail(kids), sub.visited, sub.stack)
              ELSE dfsSortChildren(g, Tail(kids), visited, stack)
         ELSE dfsSortChildren(g, Tail(kids), visited \cup {childName},
                              Append(stack, childName))

\* The loop over sortedChildren of dfsSort. Returns [visited, stack].
dfsSortChildren(g, kids, visited, stack) ==
    IF kids = <<>> THEN [visited |-> visited, stack |-> stack]
    ELSE
      LET childName == Head(kids)
          child     == GraphIndex(g, childName)
      IN IF child > 0
         THEN IF g.Nodes[child].Name \notin visited
              THEN LET sub == dfsSort(g, child, visited, stack)
                   IN dfsSortChildren(g, Tail(kids), sub.visited, sub.stack)
              ELSE dfsSortChildren(g, Tail(kids), visited, stack)
         ELSE IF childName \notin visited
              THEN dfsSortChildren(g, Tail(kids), visited \cup {childName},
                                   Append(stack, childName))
              ELSE dfsSortChildren(g, Tail(kids), visited, stack)

dfsSort(g, index, visited, stack) ==
    LET node == g.Nodes[index]
        r    == dfsSortChildren(g, SortedSeq(ChildNames(node)),
                                visited \cup {node.Name}, stack)
    IN [visited |-> r.visited, stack |-> Append(r.stack, node.Name)]

\* The nodes TopologicalSort starts from: index > 0 and InDegree = 0.
RootNames(g) == {g.Nodes[i].Name : i \in {j \in DOMAIN g.Nodes : j > 0 /\ g.Nodes[j].InDegree = 0}}

\* RootOrder without the sort: the roots in the order of their indexes in g.Nodes.
RootOrder_ByIndex(g) ==
    LET RECURSIVE Walk(_)
        Walk(i) == IF i >= LenNodes(g) THEN <<>>
                   ELSE (IF g.Nodes[i].InDegree = 0 THEN <<g.Nodes[i].Name>> ELSE <<>>)
                        \o Walk(i + 1)
    IN Walk(1)

\* rootNodes after sort.Slice by Name
RootOrder(g) == SortedSeq(RootNames(g))

RECURSIVE SortRoots(_, _, _, _)
SortRoots(g, roots, visited, stack) ==
    IF roots = <<>> THEN [visited |-> visited, stack |-> stack]
    ELSE IF Head(roots) \notin visited
         THEN LET r == dfsSort(g, g.Graph[Head(roots)], visited, stack)
              IN SortRoots(g, Tail(roots), r.visited, r.stack)
         ELSE SortRoots(g, Tail(roots), visited, stack)

\* Returns [nil, list, visited]: nil when the sanity check len(visited) != len(stack) fails.
TopologicalSort(g) ==
    LET r == SortRoots(g, RootOrder(g), {}, <<>>)
    IN IF Cardinality(r.visited) # Len(r.stack)
       THEN [nil |-> TRUE, list |-> <<>>, visited |-> r.visited]
       ELSE [nil |-> FALSE, list |-> r.stack, visited |-> r.visited]

-----------------------------------------------------------------------------
(* DbWriter.GetTablesOrdered *)

AppendMissing_None(ret, tables, setTablesFK) == ret

\* The loop that appends every table of the database missing from the sorted list.
RECURSIVE AppendMissing(_, _, _)
AppendMissing(ret, tables, setTablesFK) ==
    IF tables = <<>> THEN ret
    ELSE AppendMissing(IF Head(tables) \in setTablesFK THEN ret ELSE Append(ret, Head(tables)),
                       Tail(tables), setTablesFK)

\* tableIndexMap[name]: built by a loop over ret, a later position overwrites an earlier one.
TableIndex(ret, name) == CHOOSE i \in 1..Len(ret) : ret[i] = name /\ \A j \in 1..Len(ret) : ret[j] = name => j <= i

\* OrderErrors with the comparison of the two positions turned around.
OrderErrors_Reversed(g, ret) ==
    {pc \in (DOMAIN g.Graph) \X Names :
        /\ pc[2] \in ChildNames(g.Nodes[g.Graph[pc[1]]])
        /\ g.Nodes[g.Graph[pc[1]]].Name \in Range(ret)
        /\ pc[2] \in Range(ret)
        /\ TableIndex(ret, g.Nodes[g.Graph[pc[1]]].Name) >= TableIndex(ret, pc[2])
        /\ g.Nodes[g.Graph[pc[1]]].Name # pc[2]}

\* The (parent, child) pairs the validation loop counts as errors.
OrderErrors(g, ret) ==
    {pc \in (DOMAIN g.Graph) \X Names :
        /\ pc[2] \in ChildNames(g.Nodes[g.Graph[pc[1]]])
        /\ g.Nodes[g.Graph[pc[1]]].Name \in Range(ret)
        /\ pc[2] \in Range(ret)
        /\ TableIndex(ret, g.Nodes[g.Graph[pc[1]]].Name) <= TableIndex(ret, pc[2])
        /\ g.Nodes[g.Graph[pc[1]]].Name # pc[2]}

\* g is the graph getFKeys built, acyclic the value IsAcyclic returned for it, tables what
\* getTables returned; fkErr and tablesErr say whether these two queries failed.
\* Returns [ret, err]; err = "nil" is Go's nil error.
GetTablesOrdered(g, acyclic, tables, fkErr, tablesErr) ==
    IF fkErr THEN [ret |-> <<>>, err |-> "getFKeys"]
    ELSE IF ~acyclic THEN [ret |-> <<>>, err |-> "graph is not acyclic"]
    ELSE
      LET sorted == TopologicalSort(g).list
      IN IF tablesErr THEN [ret |-> sorted, err |-> "getTables"]
         ELSE
           LET ret == AppendMissing(sorted, tables, Range(sorted))
           IN IF Len(ret) # Len(tables)
              THEN [ret |-> <<>>, err |-> "table count mismatch"]
              ELSE IF Cardinality(OrderErrors(g, ret)) > 0
              THEN [ret |-> <<>>, err |-> "table order validation failed"]
              ELSE [ret |-> ret, err |-> "nil"]

-----------------------------------------------------------------------------
(* The caller that builds the graph (getFKeys, or the tests' newGraph) and *)
(* then uses it.                                                           *)

G == [Nodes |-> Nodes, Graph |-> Graph]

\* No configuration read yet
NoConfig == [IncludeTables |-> {}, ExcludeTables |-> {}, SkipNotEmpty |-> FALSE,
             SourceDatabase |-> "", TruncateAllCommand |-> FALSE]

\* No writeTablePart call was made yet in the running WriteTable call.  For the last one
\* made the record keeps what it met (openErr, n) and what it did: its error, the rows it
\* returned, the row-count queries it issued with their results (pre, post) and whether
\* it issued a COPY.
NoPart == [called |-> FALSE, openErr |-> FALSE, n |-> 0, err |-> FALSE, ret |-> 0,
           queries |-> 0, copy |-> FALSE, exit |-> "return", pre |-> 0, post |-> 0]

\* No WriteTable call is running.  Besides the call's position, locals and result the
\* record keeps its course: whether Commit was called, whether a statement inside the
\* transaction returned an error, the panic raised, the row count of the table when the
\* call began, the sum of the row counts declared by the files it processed, and the
\* statements it sent to the database, in the order it sent them (steps).
WtIdle == [table |-> 0, pc |-> "idle", indexInfos |-> <<>>, constraints |-> <<>>,
           groups |-> <<>>, files |-> <<>>, err |-> FALSE,
           commitCalled |-> FALSE, stmtFailed |-> FALSE, panic |-> "none",
           before |-> 0, declared |-> 0, dropped |-> {}, restored |-> {},
           unmarked |-> FALSE, listErr |-> FALSE, part |-> NoPart, steps |-> <<>>]

\* A reader or a bridge that was not constructed
IoIdle == [pc |-> "idle"]

\* WriteTable was not called for the table
NoCall == [state |-> "none", err |-> FALSE, tx |-> "none", after |-> 0, reason |-> ""]

\* TruncateAllTables was not called.  Besides the call's position (pc), locals (i,
\* truncatedCount) and result (err) the record keeps its course: the tables whose
\* emptiness check was answered (visited), those it reported rows for (reported), those
\* a TRUNCATE was issued for (issued) and succeeded for (succeeded), and the row counts
\* when the call began (rows0).
TrIdle == [pc |-> "idle", i |-> 0, truncatedCount |-> 0, err |-> FALSE, visited |-> <<>>,
           reported |-> {}, issued |-> <<>>, succeeded |-> {}, rows0 |-> <<>>]

Init ==
    /\ Nodes = NewFKeysGraph.Nodes
    /\ Graph = NewFKeysGraph.Graph
    /\ phase = "build"
    /\ acyclicRes = <<>>
    /\ sortRes = <<>>
    /\ orderedRes = <<>>
    /\ conf = NoConfig
    /\ mainPc = "idle"
    /\ ti = 1
    /\ wt = WtIdle
    /\ rows = [t \in Names |-> 0]
    /\ committed = [t \in Names |-> 0]
    /\ res = [t \in Names |-> NoCall]
    /\ callSeq = <<>>
    /\ loaded = {}
    /\ tr = TrIdle
    /\ csv = IoIdle
    /\ rd = IoIdle
    /\ br = IoIdle
    /\ fn = IoIdle

\* g.AddNode(name); a name already in the graph is refused with an error.
DoAddNode ==
    /\ phase = "build"
    /\ \E name \in Names :
         /\ Nodes' = AddNode(G, name).Nodes
         /\ Graph' = AddNode(G, name).Graph
    /\ UNCHANGED <<phase, acyclicRes, sortRes, orderedRes>>
    /\ UNCHANGED <<loadVars, ioVars>>

\* node.AddChild(child, relation) on a node of the graph
DoAddChild ==
    /\ phase = "build"
    /\ \E parent \in DOMAIN Graph, child \in Names :
         /\ child \in ChildNames(Nodes[Graph[parent]]) \/ EdgeCount(G) < MaxEdges
         /\ Nodes' = [Nodes EXCEPT ![Graph[parent]] = AddChild(@, child, 1)]
    /\ UNCHANGED <<Graph, phase, acyclicRes, sortRes, orderedRes>>
    /\ UNCHANGED <<loadVars, ioVars>>

\* g.CalculateInDegree(), the last step of the build
DoCalculateInDegree ==
    /\ phase = "build"
    /\ Nodes' = CalculateInDegree(G).Nodes
    /\ phase' = "ready"
    /\ UNCHANGED <<Graph, acyclicRes, sortRes, orderedRes>>
    /\ UNCHANGED <<loadVars, ioVars>>

\* g.IsAcyclic(): SelfCycle and Error are written to a copy of the node, the graph keeps its own.
DoIsAcyclic ==
    /\ phase = "ready"
    /\ \E b \in IsAcyclic(G) : acyclicRes' = <<b>>
    /\ phase' = "checked"
    /\ UNCHANGED <<Nodes, Graph, sortRes, orderedRes>>
    /\ UNCHANGED <<loadVars, ioVars>>

\* g.TopologicalSort()
DoTopologicalSort ==
    /\ phase = "checked"
    /\ sortRes' = <<TopologicalSort(G)>>
    /\ phase' = "sorted"
    /\ UNCHANGED <<Nodes, Graph, acyclicRes, orderedRes>>
    /\ UNCHANGED <<loadVars, ioVars>>

\* w.GetTablesOrdered() on the graph getFKeys has just built; the database's table list
\* comes back ordered by name.
DoGetTablesOrdered ==
    /\ phase = "ready"
    /\ \E T \in SUBSET Names, b \in IsAcyclic(G), fkErr \in BOOLEAN, tablesErr \in BOOLEAN :
         orderedRes' = <<[tables |-> SortedSeq(T)] @@
                         GetTablesOrdered(G, b, SortedSeq(T), fkErr, tablesErr)>>
    /\ phase' = "ordered"
    /\ UNCHANGED <<Nodes, Graph, acyclicRes, sortRes>>
    /\ UNCHANGED <<loadVars, ioVars>>

Next ==
    \/ DoAddNode
    \/ DoAddChild
    \/ DoCalculateInDegree
    \/ DoIsAcyclic
    \/ DoTopologicalSort
    \/ DoGetTablesOrdered

Spec == Init /\ [][Next]_vars

-----------------------------------------------------------------------------
(* target.DbWriter: schema objects, row counts and the statements of       *)
(* WriteTable.  A statement or query handed to the connection either       *)
(* succeeds or returns an error; which one is an input of the step.        *)

\* Largest row count a Parquet file declares.
MaxRows == 1
\* Largest number of rows a table holds before the run.
MaxInitRows == 1

\* Constraint commands and index definitions the introspection queries return.
ConstraintLists == {<<"PRIMARY KEY (id)">>,
                    <<"FOREIGN KEY (ref_id)", "UNIQUE (code)">>}
IndexLists == {<<"CREATE UNIQUE INDEX t_pkey ON t (id)">>,
               <<"CREATE UNIQUE INDEX t_pkey ON t (id)", "CREATE INDEX t_code ON t (code)">>,
               <<"CREATE UNIQUE INDEX t_pkey ON t (code)">>}

\* regExPrimary, regExCon and regExIdx of NewDatabaseWriter on these texts
MatchPrimary(command) == command = "PRIMARY KEY (id)"
MatchCon(command) == command = "UNIQUE (code)"
MatchIdx(def) == def = "CREATE UNIQUE INDEX t_pkey ON t (id)"

\* One loop of dropIndexes or restoreIndexes over statements i..n: the statements in skips
\* are not executed, a statement in fails returns an error and ends the loop, every other one
\* sets err to nil.  acc is [err, executed, failed]: the error variable, the statements
\* executed so far, and whether one of them has failed.
RECURSIVE ExecLoop(_, _, _, _, _)
ExecLoop(i, n, skips, fails, acc) ==
    IF i > n THEN acc
    ELSE IF i \in skips THEN ExecLoop(i + 1, n, skips, fails, acc)
    ELSE IF i \in fails
         THEN [err |-> TRUE, executed |-> acc.executed \cup {i}, failed |-> TRUE]
         ELSE ExecLoop(i + 1, n, skips, fails,
                       [err |-> FALSE, executed |-> acc.executed \cup {i}, failed |-> acc.failed])

\* A dropIndexes that drops the indexes before the constraints
dropIndexes_IndexesFirst(constraints, err, indexInfos, failsC, failsI) ==
    LET x == ExecLoop(1, Len(indexInfos),
                      {i \in 1..Len(indexInfos) : MatchIdx(indexInfos[i])}, failsI,
                      [err |-> err, executed |-> {}, failed |-> FALSE])
        c == ExecLoop(1, Len(constraints),
                      {i \in 1..Len(constraints) : MatchPrimary(constraints[i])}, failsC,
                      [err |-> x.err, executed |-> {}, failed |-> x.failed])
    IN [err |-> c.err, failed |-> c.failed,
        done |-> {constraints[i] : i \in c.executed \ failsC}
                 \cup {indexInfos[i] : i \in x.executed \ failsI},
        log |-> [k \in 1..Cardinality(x.executed) |-> "DROP INDEX"]
                \o [k \in 1..Cardinality(c.executed) |-> "DROP CONSTRAINT"]]

\* dropIndexes: DROP CONSTRAINT for every constraint but the primary key, then DROP INDEX
\* for every index but the unique index on id.  failsC and failsI are the statements that
\* return an error when executed.  Returns [err, failed, done]: done holds the constraint
\* commands and index definitions whose statement was executed without an error; log the
\* statements executed, in their order.
dropIndexes(constraints, err, indexInfos, failsC, failsI) ==
    LET c == ExecLoop(1, Len(constraints),
                      {i \in 1..Len(constraints) : MatchPrimary(constraints[i])}, failsC,
                      [err |-> err, executed |-> {}, failed |-> FALSE])
        x == ExecLoop(1, Len(indexInfos),
                      {i \in 1..Len(indexInfos) : MatchIdx(indexInfos[i])}, failsI,
                      [err |-> c.err, executed |-> {}, failed |-> c.failed])
    IN [err |-> x.err, failed |-> x.failed,
        done |-> {constraints[i] : i \in c.executed \ failsC}
                 \cup {indexInfos[i] : i \in x.executed \ failsI},
        log |-> [k \in 1..Cardinality(c.executed) |-> "DROP CONSTRAINT"]
                \o [k \in 1..Cardinality(x.executed) |-> "DROP INDEX"]]

\* restoreIndexes: the index definitions but the unique index on id, then ADD CONSTRAINT
\* for every constraint that is neither a primary key nor unique.  Returns [err, failed, done].
restoreIndexes(indexInfos, err, constraints, failsI, failsC) ==
    LET x == ExecLoop(1, Len(indexInfos),
                      {i \in 1..Len(indexInfos) : MatchIdx(indexInfos[i])}, failsI,
                      [err |-> err, executed |-> {}, failed |-> FALSE])
        c == ExecLoop(1, Len(constraints),
                      {i \in 1..Len(constraints) :
                          MatchPrimary(constraints[i]) \/ MatchCon(constraints[i])}, failsC,
                      [err |-> x.err, executed |-> {}, failed |-> x.failed])
    IN [err |-> c.err, failed |-> c.failed,
        done |-> {indexInfos[i] : i \in x.executed \ failsI}
                 \cup {constraints[i] : i \in c.executed \ failsC},
        log |-> [k \in 1..Cardinality(x.executed) |-> "CREATE INDEX"]
                \o [k \in 1..Cardinality(c.executed) |-> "ADD CONSTRAINT"]]

\* getTableSize: the row count the connection sees, -1 when the query fails
getTableSize(tableRows, fail) == IF fail THEN -1 ELSE tableRows

\* Config.TableNameInSet for names that carry the same schema
TableNameInSet(tables, fullTableName) ==
    [found |-> tables # {} /\ fullTableName \in tables, notEmpty |-> tables # {}]

ReasonNotEmpty == "Table is not empty"
ReasonSkippedByConfig1 == "Table is not listed in --include-tables configuration"
ReasonSkippedByConfig2 == "Table is listed in --exclude-tables configuration"

\* FieldMapper.ShouldSkip; size is what getTableSize returns when it is asked.
ShouldSkip(c, tableName, size) ==
    LET inc == TableNameInSet(c.IncludeTables, tableName)
        exc == TableNameInSet(c.ExcludeTables, tableName)
    IN IF ~inc.found /\ inc.notEmpty
       THEN [reason |-> ReasonSkippedByConfig1, skip |-> TRUE]
       ELSE IF exc.found /\ exc.notEmpty
       THEN [reason |-> ReasonSkippedByConfig2, skip |-> TRUE]
       ELSE IF size > 0
       THEN [reason |-> ReasonNotEmpty, skip |-> c.SkipNotEmpty]
       ELSE [reason |-> "", skip |-> FALSE]

-----------------------------------------------------------------------------
(* The files of a table in the snapshot *)

\* A path is [dir, base]; FileRank orders the base names as the strings sort.
FileRank(base) == CASE base = "_SUCCESS" -> 1
                    [] base = "notes.txt" -> 2
                    [] base = "part-0.parquet" -> 3
                    [] base = "part-1.parquet" -> 4

\* What ListFilesRecursively may return for the folder of a table
Listings ==
    {{},
     {[dir |-> 1, base |-> "_SUCCESS"], [dir |-> 1, base |-> "part-0.parquet"]},
     {[dir |-> 1, base |-> "_SUCCESS"], [dir |-> 1, base |-> "notes.txt"],
      [dir |-> 1, base |-> "part-0.parquet"], [dir |-> 1, base |-> "part-1.parquet"]},
     {[dir |-> 1, base |-> "part-0.parquet"]},
     {[dir |-> 1, base |-> "_SUCCESS"], [dir |-> 1, base |-> "part-0.parquet"],
      [dir |-> 2, base |-> "part-0.parquet"]}}

\* slices.Sort on the paths
RECURSIVE SortFiles(_)
SortFiles(S) ==
    IF S = {} THEN <<>>
    ELSE LET m == CHOOSE x \in S : \A y \in S :
                     x.dir < y.dir \/ (x.dir = y.dir /\ FileRank(x.base) <= FileRank(y.base))
         IN <<m>> \o SortFiles(S \ {m})

\* groupedFiles: subfolder -> its files, in sorted order
GroupFiles(allFiles) ==
    [d \in {f.dir : f \in allFiles} |-> SortFiles({f \in allFiles : f.dir = d})]

IsSuccessFile(file) == file.base = "_SUCCESS"

IsParquet(file) == file.base \in {"part-0.parquet", "part-1.parquet"}

SkipError_Never(openErr) == FALSE

\* The error writeTablePart returns for a reader that IsEmpty: LastError() when it is
\* neither nil nor io.EOF, which is the error of Open (a file that opened and declares
\* no rows leaves io.EOF there).
SkipError(openErr) == openErr

\* writeTablePart on a table that holds tableRows rows.
\*   openErr   the reader cannot open the file
\*   n         the row count the file declares
\*   panic     "producer": Transform panics in the reader's goroutine; "loader": a panic in
\*             the goroutine of WriteTable, during the copy
\*   preFail, postFail   the row-count query before / after the copy fails
\*   copyFail  the COPY returns an error (nothing is inserted)
\*   k         the rows the reader delivers before it closes the channel: all n, or fewer
\*             when a read or a transformation of a row returns an error
\* Returns [err, rows, declared, exit]: exit is "return", "panic" (unwinding the loader's
\* goroutine) or "crash" (a panic outside the loader's goroutine ends the process).
writeTablePart(tableRows, openErr, n, panic, preFail, copyFail, k, postFail) ==
    IF openErr \/ n <= 0
    THEN [err |-> SkipError(openErr), rows |-> tableRows, declared |-> IF openErr THEN 0 ELSE n,
          exit |-> "return", ret |-> 0, queries |-> 0, copy |-> FALSE, pre |-> 0, post |-> 0]
    ELSE IF panic = "producer"
    THEN [err |-> FALSE, rows |-> tableRows, declared |-> n, exit |-> "crash",
          ret |-> 0, queries |-> 1, copy |-> TRUE, pre |-> 0, post |-> 0]
    ELSE
      LET oldTableSize == getTableSize(tableRows, preFail)
      IN IF panic = "loader"
         THEN [err |-> FALSE, rows |-> tableRows, declared |-> n, exit |-> "panic",
               ret |-> 0, queries |-> 1, copy |-> TRUE, pre |-> oldTableSize, post |-> 0]
         ELSE IF copyFail
         THEN [err |-> TRUE, rows |-> tableRows, declared |-> n, exit |-> "return",
               ret |-> 0, queries |-> 1, copy |-> TRUE, pre |-> oldTableSize, post |-> 0]
         ELSE
           LET newTableSize == getTableSize(tableRows + k, postFail)
           IN [err |-> newTableSize # oldTableSize + n, rows |-> tableRows + k,
               declared |-> n, exit |-> "return", ret |-> k, queries |-> 2, copy |-> TRUE,
               pre |-> oldTableSize, post |-> newTableSize]

\* The inputs of writeTablePart, each course of it once: an input it does not come to read
\* is left at its first value.
PartInputs ==
    {in \in [openErr : BOOLEAN, n : 0..MaxRows, panic : {"none", "producer", "loader"},
             preFail : BOOLEAN, copyFail : BOOLEAN, k : 0..MaxRows, postFail : BOOLEAN] :
        /\ in.k <= in.n
        /\ (in.openErr \/ in.n = 0) => in.panic = "none"
        /\ (in.openErr \/ in.n = 0 \/ in.panic = "producer") => ~in.preFail
        /\ (in.openErr \/ in.n = 0 \/ in.panic # "none") => ~in.copyFail
        /\ (in.openErr \/ in.n = 0 \/ in.panic # "none" \/ in.copyFail) => (in.k = 0 /\ ~in.postFail)
        /\ in.openErr => in.n = 0}

-----------------------------------------------------------------------------
(* main: the schemas and configurations of the runs, and the table loop *)

\* The foreign keys (table, referenced table) of the target databases
LoadSchemas ==
    {{},
     {<<1, 2>>},
     {<<1, 1>>, <<2, 1>>},
     {<<1, 3>>, <<2, 3>>},
     {<<1, 2>>, <<2, 1>>},
     {<<1, 2>>, <<2, 3>>, <<3, 1>>}}

\* The tables of the target databases
LoadTables == {1, 2, 3}

\* The configurations of the runs
Configs ==
    {[IncludeTables |-> {}, ExcludeTables |-> {}, SkipNotEmpty |-> FALSE, SourceDatabase |-> "db",
      TruncateAllCommand |-> FALSE],
     [IncludeTables |-> {1, 2}, ExcludeTables |-> {2, 3}, SkipNotEmpty |-> TRUE, SourceDatabase |-> "db",
      TruncateAllCommand |-> FALSE],
     [IncludeTables |-> {}, ExcludeTables |-> {}, SkipNotEmpty |-> FALSE, SourceDatabase |-> "",
      TruncateAllCommand |-> FALSE],
     [IncludeTables |-> {1}, ExcludeTables |-> {}, SkipNotEmpty |-> FALSE, SourceDatabase |-> "db",
      TruncateAllCommand |-> TRUE]}

\* The loop of getFKeys over the rows of the foreign-key query
RECURSIVE getFKeys(_, _)
getFKeys(g, relations) ==
    IF relations = {} THEN CalculateInDegree(g)
    ELSE LET r  == CHOOSE x \in relations : \A y \in relations :
                       x[1] < y[1] \/ (x[1] = y[1] /\ x[2] <= y[2])
             g1 == IF GraphIndex(g, r[1]) = 0 THEN AddNode(g, r[1]) ELSE g
             i  == g1.Graph[r[1]]
             g2 == [g1 EXCEPT !.Nodes[i] = AddChild(@, r[2], 1)]
         IN getFKeys(g2, relations \ {r})

TruncateFrom_First(tables) == 1

\* TruncateAllTables: the index its loop starts at, i := len(tables) - 1 (the model
\* counts the tables from 1)
TruncateFrom(tables) == Len(tables)

\* TableAt for a loop that walks the list from its end.
TableAt_Backwards(tables, i) == tables[Len(tables) + 1 - i]

\* The table main takes in iteration i of its loop over tables.
TableAt(tables, i) == tables[i]

\* LoopAfter with continue in the place of break.
LoopAfter_Continue(err, i) == [pc |-> "loop", ti |-> i + 1]

\* Where main's loop goes after WriteTable returned in iteration i: break on an error,
\* else the next iteration.
LoopAfter(err, i) == IF err THEN [pc |-> "done", ti |-> i] ELSE [pc |-> "loop", ti |-> i + 1]

\* main's variable tables
Tables == orderedRes[1].ret

\* The table of the running WriteTable call
T == wt.table

\* The row counts of the tables when the run begins: the same in all tables, and for a
\* run that truncates also a database in which only table 2 is empty.
InitRows(c) ==
    {[t \in LoadTables |-> r] : r \in 0..MaxInitRows}
    \cup (IF c.TruncateAllCommand
          THEN {[t \in LoadTables |-> IF t = 2 THEN 0 ELSE MaxInitRows]}
          ELSE {})

InitLoad ==
    /\ \E schema \in LoadSchemas :
         /\ Nodes = getFKeys(NewFKeysGraph, schema).Nodes
         /\ Graph = getFKeys(NewFKeysGraph, schema).Graph
    /\ phase = "ready"
    /\ acyclicRes = <<>>
    /\ sortRes = <<>>
    /\ orderedRes = <<>>
    /\ conf \in Configs
    /\ mainPc = "start"
    /\ ti = 1
    /\ wt = WtIdle
    /\ rows \in InitRows(conf)
    /\ committed = rows
    /\ res = [t \in LoadTables |-> NoCall]
    /\ callSeq = <<>>
    /\ loaded = {}
    /\ tr = TrIdle
    /\ csv = IoIdle
    /\ rd = IoIdle
    /\ br = IoIdle
    /\ fn = IoIdle

\* main: writer.GetTablesOrdered(); an error ends the run.
Main_GetTablesOrdered ==
    /\ mainPc = "start"
    /\ \E b \in IsAcyclic(G), fkErr \in BOOLEAN, tablesErr \in BOOLEAN :
         LET r == GetTablesOrdered(G, b, SortedSeq(LoadTables), fkErr, tablesErr)
         IN /\ orderedRes' = <<[tables |-> SortedSeq(LoadTables)] @@ r>>
            /\ mainPc' = IF r.err # "nil" THEN "done"
                         ELSE IF conf.TruncateAllCommand THEN "truncate" ELSE "loop"
            /\ tr' = IF r.err = "nil" /\ conf.TruncateAllCommand
                     THEN [TrIdle EXCEPT !.pc = "check", !.i = TruncateFrom(r.ret),
                                         !.rows0 = rows]
                     ELSE tr
    /\ phase' = "ordered"
    /\ UNCHANGED <<Nodes, Graph, acyclicRes, sortRes>>
    /\ UNCHANGED <<conf, ti, wt, rows, committed, res, callSeq, loaded, ioVars>>

\* TruncateAllTables: the head of the loop and the query that checks whether the table
\* holds rows; a failing query ends the call.
TR_Check ==
    /\ mainPc = "truncate" /\ tr.pc = "check"
    /\ IF tr.i < 1
       THEN tr' = [tr EXCEPT !.pc = "returned", !.err = FALSE]
       ELSE \E fail \in BOOLEAN :
              LET table == Tables[tr.i]
                  tableNotEmpty == rows[table] > 0
              IN IF fail
                 THEN tr' = [tr EXCEPT !.pc = "returned", !.err = TRUE]
                 ELSE tr' = [tr EXCEPT !.visited = Append(@, table),
                                       !.reported = IF tableNotEmpty THEN @ \cup {table} ELSE @,
                                       !.pc = IF tableNotEmpty THEN "exec" ELSE "check",
                                       !.i = IF tableNotEmpty THEN @ ELSE @ - 1]
    /\ UNCHANGED <<graphVars, ioVars, conf, mainPc, ti, wt, rows, committed, res, callSeq, loaded>>

\* TruncateAllTables: the TRUNCATE of a table that holds rows, on the connection outside
\* any transaction; a failing statement ends the call.
TR_Exec ==
    /\ mainPc = "truncate" /\ tr.pc = "exec"
    /\ \E fail \in BOOLEAN :
         LET table == Tables[tr.i]
         IN IF fail
            THEN /\ tr' = [tr EXCEPT !.pc = "returned", !.err = TRUE,
                                     !.issued = Append(@, table)]
                 /\ UNCHANGED <<rows, committed>>
            ELSE /\ tr' = [tr EXCEPT !.pc = "check", !.i = @ - 1,
                                     !.truncatedCount = @ + 1,
                                     !.issued = Append(@, table),
                                     !.succeeded = @ \cup {table}]
                 /\ rows' = [rows EXCEPT ![table] = 0]
                 /\ committed' = [committed EXCEPT ![table] = 0]
    /\ UNCHANGED <<graphVars, ioVars, conf, mainPc, ti, wt, res, callSeq, loaded>>

\* main: TruncateAllTables has returned; an error ends the run.
Main_AfterTruncate ==
    /\ mainPc = "truncate" /\ tr.pc = "returned"
    /\ mainPc' = IF tr.err THEN "done" ELSE "loop"
    /\ tr' = [tr EXCEPT !.pc = "done"]
    /\ UNCHANGED <<graphVars, ioVars, conf, ti, wt, rows, committed, res, callSeq, loaded>>

\* main: one iteration of the loop over tables, up to the call of WriteTable.  exists says
\* whether parquetTableMap holds the table; sizeFail whether ShouldSkip's row-count query fails.
Main_NextTable ==
    /\ mainPc = "loop"
    /\ IF ti > Len(Tables)
       THEN /\ mainPc' = "done"
            /\ UNCHANGED <<ti, wt, res, callSeq>>
       ELSE \E exists \in BOOLEAN, sizeFail \in BOOLEAN :
              LET table == TableAt(Tables, ti)
                  s     == ShouldSkip(conf, table, getTableSize(rows[table], sizeFail))
              IN IF ~exists
                 THEN /\ ti' = ti + 1
                      /\ UNCHANGED <<mainPc, wt, res, callSeq>>
                 ELSE IF s.skip
                 THEN /\ ti' = ti + 1
                      /\ res' = [res EXCEPT ![table] = [NoCall EXCEPT !.state = "skipped",
                                                                      !.reason = s.reason]]
                      /\ UNCHANGED <<mainPc, wt, callSeq>>
                 ELSE /\ mainPc' = "call"
                      /\ wt' = [WtIdle EXCEPT !.table = table, !.pc = "getIndexList",
                                               !.before = rows[table]]
                      /\ res' = [res EXCEPT ![table] = [NoCall EXCEPT !.state = "running"]]
                      /\ callSeq' = Append(callSeq, table)
                      /\ UNCHANGED ti
    /\ UNCHANGED <<graphVars, ioVars, conf, rows, committed, loaded, tr>>

\* main: WriteTable has returned.
Main_AfterWriteTable ==
    /\ mainPc = "call"
    /\ wt.pc = "returned"
    /\ mainPc' = LoopAfter(wt.err, ti).pc
    /\ ti' = LoopAfter(wt.err, ti).ti
    /\ loaded' = IF wt.err THEN loaded ELSE loaded \cup {T}
    /\ wt' = WtIdle
    /\ UNCHANGED <<graphVars, ioVars, conf, rows, committed, res, callSeq, tr>>

-----------------------------------------------------------------------------
(* DbWriter.WriteTable, step by step *)

\* The call w after it sent the statement step to the database
Did(w, step) == [w EXCEPT !.steps = Append(@, step)]

\* WriteTable returns err; w is the call's record, tx what became of its transaction.
\* The locals end with the call.  After Rollback, or a Commit that failed, the rows of the
\* transaction are gone; after Commit they are the committed rows of the table.
Return(w, err, tx) ==
    /\ wt' = [w EXCEPT !.pc = "returned", !.err = err, !.indexInfos = <<>>,
                       !.constraints = <<>>, !.groups = <<>>, !.files = <<>>,
                       !.steps = IF tx = "rolledback" /\ ~w.commitCalled
                                 THEN Append(@, "Rollback") ELSE @]
    /\ res' = [res EXCEPT ![T] = [state |-> "returned", err |-> err, tx |-> tx,
                                  after |-> IF tx = "committed" THEN rows[T] ELSE 0,
                                  reason |-> ""]]
    /\ rows' = IF tx = "committed" THEN rows ELSE [rows EXCEPT ![T] = committed[T]]
    /\ committed' = IF tx = "committed" THEN [committed EXCEPT ![T] = rows[T]] ELSE committed

WT_GetIndexList ==
    /\ mainPc = "call" /\ wt.pc = "getIndexList"
    /\ \E fail \in BOOLEAN, infos \in IndexLists :
         IF fail
         THEN Return(Did(wt, "findIndexes"), TRUE, "none")
         ELSE /\ wt' = [Did(wt, "findIndexes") EXCEPT !.indexInfos = infos,
                                                       !.pc = "getConstraintList"]
              /\ UNCHANGED <<res, rows, committed>>
    /\ UNCHANGED <<graphVars, ioVars, conf, mainPc, ti, callSeq, loaded, tr>>

WT_GetConstraintList ==
    /\ mainPc = "call" /\ wt.pc = "getConstraintList"
    /\ \E fail \in BOOLEAN, cons \in ConstraintLists :
         IF fail
         THEN Return(Did(wt, "findConstrains"), TRUE, "none")
         ELSE /\ wt' = [Did(wt, "findConstrains") EXCEPT !.constraints = cons, !.pc = "begin"]
              /\ UNCHANGED <<res, rows, committed>>
    /\ UNCHANGED <<graphVars, ioVars, conf, mainPc, ti, callSeq, loaded, tr>>

\* w.db.Begin and defer closeTransactionInPanic(tx)
WT_Begin ==
    /\ mainPc = "call" /\ wt.pc = "begin"
    /\ \E fail \in BOOLEAN :
         IF fail
         THEN Return(Did(wt, "Begin"), TRUE, "none")
         ELSE /\ wt' = [Did(wt, "Begin") EXCEPT !.pc = "deferConstraints"]
              /\ res' = [res EXCEPT ![T].tx = "open"]
              /\ UNCHANGED <<rows, committed>>
    /\ UNCHANGED <<graphVars, ioVars, conf, mainPc, ti, callSeq, loaded, tr>>

\* w.db.Query(deferConstraints); on an error Rollback and return.
WT_DeferConstraints ==
    /\ mainPc = "call" /\ wt.pc = "deferConstraints"
    /\ \E fail \in BOOLEAN :
         IF fail
         THEN Return([Did(wt, "SET CONSTRAINTS ALL DEFERRED") EXCEPT !.stmtFailed = TRUE],
                     TRUE, "rolledback")
         ELSE /\ wt' = [Did(wt, "SET CONSTRAINTS ALL DEFERRED") EXCEPT !.pc = "disableTriggers"]
              /\ UNCHANGED <<res, rows, committed>>
    /\ UNCHANGED <<graphVars, ioVars, conf, mainPc, ti, callSeq, loaded, tr>>

\* w.db.Query(disableTriggers); on an error Rollback and return.
WT_DisableTriggers ==
    /\ mainPc = "call" /\ wt.pc = "disableTriggers"
    /\ \E fail \in BOOLEAN :
         IF fail
         THEN Return([Did(wt, "DISABLE TRIGGER ALL") EXCEPT !.stmtFailed = TRUE],
                     TRUE, "rolledback")
         ELSE /\ wt' = [Did(wt, "DISABLE TRIGGER ALL") EXCEPT !.pc = "dropIndexes"]
              /\ UNCHANGED <<res, rows, committed>>
    /\ UNCHANGED <<graphVars, ioVars, conf, mainPc, ti, callSeq, loaded, tr>>

\* err = w.dropIndexes(...); on an error Rollback and return.
WT_DropIndexes ==
    /\ mainPc = "call" /\ wt.pc = "dropIndexes"
    /\ \E failsC \in SUBSET (1..Len(wt.constraints)), failsI \in SUBSET (1..Len(wt.indexInfos)) :
         LET d == dropIndexes(wt.constraints, FALSE, wt.indexInfos, failsC, failsI)
             w == [wt EXCEPT !.stmtFailed = d.failed, !.dropped = d.done,
                             !.steps = @ \o d.log]
         IN IF d.err
            THEN Return(w, TRUE, "rolledback")
            ELSE /\ wt' = [w EXCEPT !.pc = "writeTableData"]
                 /\ UNCHANGED <<res, rows, committed>>
    /\ UNCHANGED <<graphVars, ioVars, conf, mainPc, ti, callSeq, loaded, tr>>

\* writeTableData up to its loop over the groups: the check of SourceDatabase, the listing
\* (its error is dropped, the list is then empty) and the grouping by subfolder.
WT_WriteTableData ==
    /\ mainPc = "call" /\ wt.pc = "writeTableData"
    /\ IF conf.SourceDatabase = ""
       THEN Return(wt, TRUE, "rolledback")
       ELSE /\ \E listErr \in BOOLEAN, listing \in Listings :
                 wt' = [wt EXCEPT !.groups = GroupFiles(IF listErr THEN {} ELSE listing),
                                  !.files = <<>>, !.pc = "files", !.listErr = listErr,
                                  !.unmarked = \E f \in listing : \A g \in listing :
                                                   g.dir = f.dir => ~IsSuccessFile(g)]
            /\ UNCHANGED <<res, rows, committed>>
    /\ UNCHANGED <<graphVars, ioVars, conf, mainPc, ti, callSeq, loaded, tr>>

\* writeTableData: the next subfolder, in the order the map yields them, and its check for
\* the marker file; after the last one writeTableData returns nil.
WT_NextGroup ==
    /\ mainPc = "call" /\ wt.pc = "files" /\ wt.files = <<>>
    /\ IF DOMAIN wt.groups = {}
       THEN /\ wt' = [wt EXCEPT !.pc = "restoreIndexes"]
            /\ UNCHANGED <<res, rows, committed>>
       ELSE \E subfolder \in DOMAIN wt.groups :
              LET files == wt.groups[subfolder]
                  left  == [d \in (DOMAIN wt.groups) \ {subfolder} |-> wt.groups[d]]
              IN IF ~\E i \in 1..Len(files) : IsSuccessFile(files[i])
                 THEN Return(wt, TRUE, "rolledback")
                 ELSE /\ wt' = [wt EXCEPT !.groups = left, !.files = files]
                      /\ UNCHANGED <<res, rows, committed>>
    /\ UNCHANGED <<graphVars, ioVars, conf, mainPc, ti, callSeq, loaded, tr>>

\* writeTableData: the next file of the subfolder; a Parquet file goes to writeTablePart.
\* A panic that unwinds WriteTable runs closeTransactionInPanic: Rollback, and WriteTable
\* returns the values its named results hold, a nil error.  A panic in the reader's
\* goroutine ends the process: the server discards the open transaction.
WT_NextFile ==
    /\ mainPc = "call" /\ wt.pc = "files" /\ wt.files # <<>>
    /\ LET file == Head(wt.files)
       IN IF IsSuccessFile(file) \/ ~IsParquet(file)
          THEN /\ wt' = [wt EXCEPT !.files = Tail(wt.files)]
               /\ UNCHANGED <<res, rows, committed, mainPc>>
          ELSE \E in \in PartInputs :
                 LET p == writeTablePart(rows[T], in.openErr, in.n, in.panic, in.preFail,
                                         in.copyFail, in.k, in.postFail)
                     w == [wt EXCEPT !.declared = @ + p.declared,
                                     !.stmtFailed = @ \/ in.copyFail,
                                     !.steps = IF p.copy THEN Append(@, "COPY") ELSE @,
                                     !.part = [called |-> TRUE, openErr |-> in.openErr,
                                               n |-> in.n, err |-> p.err, ret |-> p.ret,
                                               queries |-> p.queries, copy |-> p.copy,
                                               exit |-> p.exit, pre |-> p.pre,
                                               post |-> p.post]]
                 IN CASE p.exit = "crash" ->
                           /\ mainPc' = "crashed"
                           /\ wt' = [w EXCEPT !.pc = "crashed", !.panic = "producer"]
                           /\ res' = [res EXCEPT ![T] = [state |-> "crashed", err |-> FALSE,
                                                         tx |-> "discarded", after |-> 0,
                                                         reason |-> ""]]
                           /\ rows' = [rows EXCEPT ![T] = committed[T]]
                           /\ UNCHANGED committed
                      [] p.exit = "panic" ->
                           /\ Return([w EXCEPT !.panic = "loader"], FALSE, "rolledback")
                           /\ UNCHANGED mainPc
                      [] p.exit = "return" /\ p.err ->
                           /\ Return(w, TRUE, "rolledback")
                           /\ UNCHANGED mainPc
                      [] p.exit = "return" /\ ~p.err ->
                           /\ wt' = [w EXCEPT !.files = Tail(wt.files)]
                           /\ rows' = [rows EXCEPT ![T] = p.rows]
                           /\ UNCHANGED <<res, committed, mainPc>>
    /\ UNCHANGED <<graphVars, ioVars, conf, ti, callSeq, loaded, tr>>

\* err = w.restoreIndexes(...); on an error Rollback and return.
WT_RestoreIndexes ==
    /\ mainPc = "call" /\ wt.pc = "restoreIndexes"
    /\ \E failsI \in SUBSET (1..Len(wt.indexInfos)), failsC \in SUBSET (1..Len(wt.constraints)) :
         LET d == restoreIndexes(wt.indexInfos, FALSE, wt.constraints, failsI, failsC)
             w == [wt EXCEPT !.stmtFailed = @ \/ d.failed, !.restored = d.done,
                             !.steps = @ \o d.log]
         IN IF d.err
            THEN Return(w, TRUE, "rolledback")
            ELSE /\ wt' = [w EXCEPT !.pc = "enableTriggers"]
                 /\ UNCHANGED <<res, rows, committed>>
    /\ UNCHANGED <<graphVars, ioVars, conf, mainPc, ti, callSeq, loaded, tr>>

\* w.db.Query(enableTriggers); on an error Rollback and return.
WT_EnableTriggers ==
    /\ mainPc = "call" /\ wt.pc = "enableTriggers"
    /\ \E fail \in BOOLEAN :
         IF fail
         THEN Return([Did(wt, "ENABLE TRIGGER ALL") EXCEPT !.stmtFailed = TRUE],
                     TRUE, "rolledback")
         ELSE /\ wt' = [Did(wt, "ENABLE TRIGGER ALL") EXCEPT !.pc = "commit"]
              /\ UNCHANGED <<res, rows, committed>>
    /\ UNCHANGED <<graphVars, ioVars, conf, mainPc, ti, callSeq, loaded, tr>>

\* err = tx.Commit() and return: a failed Commit leaves the database as it was before
\* the transaction.
WT_Commit ==
    /\ mainPc = "call" /\ wt.pc = "commit"
    /\ \E fail \in BOOLEAN :
         IF fail
         THEN Return([Did(wt, "Commit") EXCEPT !.commitCalled = TRUE], TRUE, "rolledback")
         ELSE Return([Did(wt, "Commit") EXCEPT !.commitCalled = TRUE], FALSE, "committed")
    /\ UNCHANGED <<graphVars, ioVars, conf, mainPc, ti, callSeq, loaded, tr>>

NextLoad ==
    \/ Main_GetTablesOrdered
    \/ TR_Check
    \/ TR_Exec
    \/ Main_AfterTruncate
    \/ Main_NextTable
    \/ Main_AfterWriteTable
    \/ WT_GetIndexList
    \/ WT_GetConstraintList
    \/ WT_Begin
    \/ WT_DeferConstraints
    \/ WT_DisableTriggers
    \/ WT_DropIndexes
    \/ WT_WriteTableData
    \/ WT_NextGroup
    \/ WT_NextFile
    \/ WT_RestoreIndexes
    \/ WT_EnableTriggers
    \/ WT_Commit

SpecLoad == InitLoad /\ [][NextLoad]_vars

-----------------------------------------------------------------------------
(* utils.ConvertToCSVReader: the encoding of one row (csv_utils.go)        *)
(* A string is a sequence of one-character tokens; a cell is nil or a      *)
(* string, as the values of ParquetReader.Values are on the CSV path.      *)

\* Largest number of characters in all the cells of a row together.
MaxRowChars == 2
\* Largest number of columns of a row.
MaxCols == 2

Comma == ","
Quote == "\""
LF == "\n"
Space == " "
\* const NeverHappeningCharacter = "\x7F"
NeverHappeningCharacter == "DEL"

Alphabet == {"a", Comma, Quote, LF, Space, NeverHappeningCharacter}

NilCell == [isNil |-> TRUE, s |-> <<>>]
StrCell(s) == [isNil |-> FALSE, s |-> s]

\* The strings of exactly n characters
RECURSIVE StringsOfLen(_)
StringsOfLen(n) ==
    IF n = 0 THEN {<<>>}
    ELSE {<<c>> \o s : c \in Alphabet, s \in StringsOfLen(n - 1)}

\* The rows of exactly cols cells that hold at most budget characters
RECURSIVE RowsOf(_, _)
RowsOf(cols, budget) ==
    IF cols = 0 THEN {<<>>}
    ELSE {<<NilCell>> \o r : r \in RowsOf(cols - 1, budget)}
         \cup UNION {{<<StrCell(s)>> \o r : s \in StringsOfLen(n), r \in RowsOf(cols - 1, budget - n)} :
                     n \in 0..budget}

CsvRows == UNION {RowsOf(cols, MaxRowChars) : cols \in 1..MaxCols}

\* record[i] of convertToCSVReader without the placeholder: fmt.Sprint(v) alone
RecordField_NoPlaceholder(cell) == IF cell.isNil THEN <<>> ELSE cell.s

\* record[i] of convertToCSVReader: "" for nil, fmt.Sprint(v) otherwise, and
\* the placeholder when that string is empty
RecordField(cell) ==
    IF cell.isNil THEN <<>>
    ELSE IF cell.s = <<>> THEN <<NeverHappeningCharacter>> ELSE cell.s

\* csv.Writer.fieldNeedsQuotes: an empty field is never quoted; a field with
\* the delimiter, a quote or a line break, or with a leading space, is.
fieldNeedsQuotes(field) ==
    /\ field # <<>>
    /\ \/ \E i \in 1..Len(field) : field[i] \in {Comma, Quote, LF}
       \/ field[1] = Space

\* csv.Writer.Write of one quoted field: every quote is doubled
RECURSIVE QuotedBody(_)
QuotedBody(field) ==
    IF field = <<>> THEN <<>>
    ELSE (IF field[1] = Quote THEN <<Quote, Quote>> ELSE <<field[1]>>) \o QuotedBody(Tail(field))

WriteField(field) ==
    IF fieldNeedsQuotes(field) THEN <<Quote>> \o QuotedBody(field) \o <<Quote>> ELSE field

\* csv.Writer.Write: the fields separated by the delimiter, then a line feed
RECURSIVE WriteRecord(_)
WriteRecord(record) ==
    IF record = <<>> THEN <<LF>>
    ELSE WriteField(record[1]) \o (IF Len(record) > 1 THEN <<Comma>> ELSE <<>>) \o WriteRecord(Tail(record))

\* The first stage for one row: the record of the row, written by the csv.Writer
EncodeRow(row) == WriteRecord([i \in 1..Len(row) |-> RecordField(row[i])])

\* strings.ReplaceAll(s, NeverHappeningCharacter, "\"\"")
RECURSIVE replaceNeverHappeningCharacter(_)
replaceNeverHappeningCharacter(s) ==
    IF s = <<>> THEN <<>>
    ELSE (IF s[1] = NeverHappeningCharacter THEN <<Quote, Quote>> ELSE <<s[1]>>)
         \o replaceNeverHappeningCharacter(Tail(s))

\* wrapPipeReaderWithProcessing: the stream is processed block by block; the
\* first block has n bytes (pr.Read returns what one write of the pipe holds).
ProcessBlocks(s, n) ==
    replaceNeverHappeningCharacter(SubSeq(s, 1, n)) \o replaceNeverHappeningCharacter(SubSeq(s, n + 1, Len(s)))

\* COPY ... FROM STDIN in CSV format, one line: fields end at a delimiter
\* outside quotes, the line at a line feed outside quotes; inside quotes a
\* doubled quote is a quote; an unquoted empty field is NULL.
RECURSIVE CopyReadLine(_, _, _, _, _, _)
CopyReadLine(s, i, inQuote, sawQuote, cur, acc) ==
    LET field == IF ~sawQuote /\ cur = <<>> THEN NilCell ELSE StrCell(cur)
    IN IF i > Len(s) THEN [row |-> Append(acc, field), rest |-> <<>>, complete |-> FALSE]
       ELSE IF inQuote
            THEN IF s[i] = Quote
                 THEN IF i < Len(s) /\ s[i + 1] = Quote
                      THEN CopyReadLine(s, i + 2, TRUE, sawQuote, Append(cur, Quote), acc)
                      ELSE CopyReadLine(s, i + 1, FALSE, sawQuote, cur, acc)
                 ELSE CopyReadLine(s, i + 1, TRUE, sawQuote, Append(cur, s[i]), acc)
            ELSE IF s[i] = Quote THEN CopyReadLine(s, i + 1, TRUE, TRUE, cur, acc)
                 ELSE IF s[i] = Comma THEN CopyReadLine(s, i + 1, FALSE, FALSE, <<>>, Append(acc, field))
                 ELSE IF s[i] = LF
                      THEN [row |-> Append(acc, field), rest |-> SubSeq(s, i + 1, Len(s)), complete |-> TRUE]
                      ELSE CopyReadLine(s, i + 1, FALSE, sawQuote, Append(cur, s[i]), acc)

CopyDecode(s) == CopyReadLine(s, 1, FALSE, FALSE, <<>>, <<>>)

\* A row was handed to the bridge; nothing is written yet
InitCsv ==
    /\ Nodes = NewFKeysGraph.Nodes
    /\ Graph = NewFKeysGraph.Graph
    /\ phase = "idle"
    /\ acyclicRes = <<>>
    /\ sortRes = <<>>
    /\ orderedRes = <<>>
    /\ conf = NoConfig
    /\ mainPc = "idle"
    /\ ti = 1
    /\ wt = WtIdle
    /\ rows = [t \in LoadTables |-> 0]
    /\ committed = rows
    /\ res = [t \in LoadTables |-> NoCall]
    /\ callSeq = <<>>
    /\ loaded = {}
    /\ tr = TrIdle
    /\ \E row \in CsvRows :
         csv = [pc |-> "row", row |-> row, stage1 |-> <<>>, out |-> <<>>, err |-> FALSE,
                copied |-> <<>>]
    /\ rd = IoIdle
    /\ br = IoIdle
    /\ fn = IoIdle

\* convertToCSVReader, first stage: source.Values, the record, csvWriter.Write
\* and the final Flush. The function itself returns a nil error.
CSV_WriteRecord ==
    /\ csv.pc = "row"
    /\ csv' = [csv EXCEPT !.pc = "written", !.stage1 = EncodeRow(csv.row), !.err = FALSE]
    /\ UNCHANGED <<graphVars, loadVars, rd, br, fn>>

\* wrapPipeReaderWithProcessing, second stage: every block read from the first
\* pipe goes through processFunc and into the second pipe.
CSV_ProcessBlocks ==
    /\ csv.pc = "written"
    /\ \E n \in 0..Len(csv.stage1) :
         csv' = [csv EXCEPT !.pc = "out", !.out = ProcessBlocks(csv.stage1, n)]
    /\ UNCHANGED <<graphVars, loadVars, rd, br, fn>>

\* pgConn.CopyFrom: the server decodes what the second pipe delivers
CSV_CopyFrom ==
    /\ csv.pc = "out"
    /\ csv' = [csv EXCEPT !.pc = "copied", !.copied = CopyDecode(csv.out)]
    /\ UNCHANGED <<graphVars, loadVars, rd, br, fn>>

NextCsv ==
    \/ CSV_WriteRecord
    \/ CSV_ProcessBlocks
    \/ CSV_CopyFrom

SpecCsv == InitCsv /\ [][NextCsv]_vars

-----------------------------------------------------------------------------
(* source.ParquetReader: one reader, its producer goroutines and the       *)
(* consumer that calls IsEmpty and Next (parquet_reader.go)                *)
(* A file is the sequence of the sizes of its row groups; its rows are     *)
(* numbered 1..NumRows in file order.                                      *)

\* Largest number of rows of a Parquet file.
MaxFileRows == 2
\* Largest number of times the model lets os.Open succeed for one reader.
MaxOpens == 2

RECURSIVE GroupSizes(_)
GroupSizes(budget) ==
    {<<>>} \cup UNION {{<<k>> \o g : g \in GroupSizes(budget - k)} : k \in 1..budget}

ParquetFiles == GroupSizes(MaxFileRows)

\* parquet.File.NumRows
RECURSIVE NumRows(_)
NumRows(f) == IF f = <<>> THEN 0 ELSE f[1] + NumRows(Tail(f))

\* The first row of the row group after the one that holds row pos
RECURSIVE NextGroupStart(_, _, _)
NextGroupStart(f, pos, first) ==
    IF f = <<>> THEN first
    ELSE IF pos < first + f[1] THEN first + f[1]
         ELSE NextGroupStart(Tail(f), pos, first + f[1])

\* What reading can hit: nothing, a ReadRows error other than io.EOF, a
\* ReadRows that returns no row and no error, or a Transform error, at row at
Faults(f) ==
    {[kind |-> "none", at |-> 0]}
    \cup {[kind |-> k, at |-> r] : k \in {"read", "count", "transform"}, r \in 1..NumRows(f)}

NoItem == [row |-> 0, err |-> FALSE]

\* NewParquetReader: every field has its zero value
NewParquetReader(f, fault, openErr) ==
    [file |-> f, fault |-> fault, openErr |-> openErr,
     isOpen |-> FALSE, wasClosed |-> FALSE, lastError |-> "nil",
     rfile |-> 0, rchannel |-> 0, rowCount |-> 0, rowCounter |-> 0, nextRow |-> 0,
     handles |-> <<>>, chans |-> <<>>, prods |-> <<>>,
     pc |-> "idle", got |-> <<>>, lastNext |-> "none", empty |-> "none"]

\* ParquetReader.Open: refuses a reader that is or was open; os.Open may fail
Open(r) ==
    IF r.isOpen \/ r.wasClosed THEN [r EXCEPT !.lastError = "reopen"]
    ELSE IF r.openErr THEN [r EXCEPT !.lastError = "open"]
    ELSE [r EXCEPT !.handles = Append(@, "open"), !.rfile = Len(r.handles) + 1,
                   !.isOpen = TRUE, !.rowCount = NumRows(r.file)]

\* ParquetReader.StartReading: a new unbuffered channel and a new goroutine
StartReading(r) ==
    [r EXCEPT !.chans = Append(@, FALSE), !.rchannel = Len(r.chans) + 1,
              !.prods = Append(@, [pc |-> "read", pos |-> 1, h |-> r.rfile, ch |-> 0, item |-> NoItem])]

\* ParquetReader.OpenAndStartReadingIfNotDoneYet
OpenAndStartReadingIfNotDoneYet(r) ==
    IF r.lastError = "nil" /\ ~r.isOpen /\ ~r.wasClosed
    THEN LET o == Open(r)
         IN IF o.lastError = "nil"
            THEN IF o.rowCount = 0 THEN [StartReading(o) EXCEPT !.lastError = "EOF"]
                 ELSE StartReading(o)
            ELSE o
    ELSE r

\* A reader was constructed for a file; nothing was called yet
InitReader ==
    /\ Nodes = NewFKeysGraph.Nodes
    /\ Graph = NewFKeysGraph.Graph
    /\ phase = "idle"
    /\ acyclicRes = <<>>
    /\ sortRes = <<>>
    /\ orderedRes = <<>>
    /\ conf = NoConfig
    /\ mainPc = "idle"
    /\ ti = 1
    /\ wt = WtIdle
    /\ rows = [t \in LoadTables |-> 0]
    /\ committed = rows
    /\ res = [t \in LoadTables |-> NoCall]
    /\ callSeq = <<>>
    /\ loaded = {}
    /\ tr = TrIdle
    /\ csv = IoIdle
    /\ \E f \in ParquetFiles, openErr \in BOOLEAN :
         \E fault \in Faults(f) : rd = NewParquetReader(f, fault, openErr)
    /\ br = IoIdle
    /\ fn = IoIdle

\* The consumer's call opens the file only while the model's cap allows it
MayCall == Len(OpenAndStartReadingIfNotDoneYet(rd).handles) <= MaxOpens

\* ParquetReader.IsEmpty
RD_IsEmpty ==
    /\ rd.pc = "idle"
    /\ MayCall
    /\ LET r == OpenAndStartReadingIfNotDoneYet(rd)
       IN rd' = [r EXCEPT !.empty = IF r.rowCount <= 0 \/ r.lastError # "nil" THEN "true" ELSE "false"]
    /\ UNCHANGED <<graphVars, loadVars, csv, br, fn>>

\* ParquetReader.Next up to the receive from the channel
RD_Next ==
    /\ rd.pc = "idle"
    /\ MayCall
    /\ LET r == OpenAndStartReadingIfNotDoneYet(rd)
       IN rd' = IF r.lastError # "nil" THEN [r EXCEPT !.lastNext = "false"]
                ELSE [r EXCEPT !.pc = "recv"]
    /\ UNCHANGED <<graphVars, loadVars, csv, br, fn>>

\* ParquetReader.Next: data, ok := <-r.channel and what follows. The channel
\* is unbuffered: the receive completes with a producer that is in its send,
\* or with the channel closed.
RD_Receive ==
    /\ rd.pc = "recv"
    /\ \/ /\ rd.chans[rd.rchannel]
          /\ rd' = [rd EXCEPT !.pc = "idle", !.lastNext = "false"]
       \/ /\ ~rd.chans[rd.rchannel]
          /\ \E p \in 1..Len(rd.prods) :
               /\ rd.prods[p].pc = "send"
               /\ rd.prods[p].ch = rd.rchannel
               /\ LET item == rd.prods[p].item
                      r == [rd EXCEPT !.prods[p].pc = "read", !.prods[p].pos = @ + 1,
                                      !.prods[p].item = NoItem, !.prods[p].ch = 0, !.pc = "idle"]
                  IN rd' = IF item.err
                           THEN [r EXCEPT !.lastError = "row", !.lastNext = "false"]
                           ELSE [r EXCEPT !.nextRow = item.row, !.rowCounter = @ + 1,
                                          !.got = Append(@, item.row), !.lastNext = "true"]
    /\ UNCHANGED <<graphVars, loadVars, csv, br, fn>>

\* The consumer makes no further call (CopyFrom returned)
RD_Stop ==
    /\ rd.pc = "idle"
    /\ rd.lastNext # "none" \/ rd.empty # "none"
    /\ rd' = [rd EXCEPT !.pc = "stopped"]
    /\ UNCHANGED <<graphVars, loadVars, csv, br, fn>>

\* The producer goroutine: one pass of the loop body up to the send, or the
\* end of the loops and close(r.channel). A read from a closed handle fails.
RD_ReadRows ==
    \E p \in 1..Len(rd.prods) :
        /\ rd.prods[p].pc = "read"
        /\ LET pos == rd.prods[p].pos
               failed == \/ rd.handles[rd.prods[p].h] = "closed"
                         \/ rd.fault.kind = "read" /\ rd.fault.at = pos
           IN rd' = IF pos > NumRows(rd.file)
                    THEN [rd EXCEPT !.chans[rd.rchannel] = TRUE, !.prods[p].pc = "close"]
                    ELSE IF failed
                    THEN [rd EXCEPT !.prods[p].pos = NextGroupStart(rd.file, pos, 1)]
                    ELSE IF rd.fault.kind = "transform" /\ rd.fault.at = pos
                    THEN [rd EXCEPT !.chans[rd.rchannel] = TRUE, !.prods[p].pc = "close"]
                    ELSE [rd EXCEPT !.prods[p].pc = "send", !.prods[p].ch = rd.rchannel,
                                    !.prods[p].item =
                                        IF rd.fault.kind = "count" /\ rd.fault.at = pos
                                        THEN [row |-> 0, err |-> TRUE]
                                        ELSE [row |-> pos, err |-> FALSE]]
        /\ UNCHANGED <<graphVars, loadVars, csv, br, fn>>

\* The deferred r.Close(), first statement: if r.isOpen { r.isOpen = false
RD_CloseIsOpen ==
    \E p \in 1..Len(rd.prods) :
        /\ rd.prods[p].pc = "close"
        /\ rd' = IF rd.isOpen THEN [rd EXCEPT !.isOpen = FALSE, !.prods[p].pc = "closeWasClosed"]
                 ELSE [rd EXCEPT !.prods[p].pc = "done"]
        /\ UNCHANGED <<graphVars, loadVars, csv, br, fn>>

\* r.Close(): r.wasClosed = true
RD_CloseWasClosed ==
    \E p \in 1..Len(rd.prods) :
        /\ rd.prods[p].pc = "closeWasClosed"
        /\ rd' = [rd EXCEPT !.wasClosed = TRUE, !.prods[p].pc = "closeFile"]
        /\ UNCHANGED <<graphVars, loadVars, csv, br, fn>>

\* r.Close(): err = r.file.Close(); r.file = nil
RD_CloseFile ==
    \E p \in 1..Len(rd.prods) :
        /\ rd.prods[p].pc = "closeFile"
        /\ rd' = [rd EXCEPT !.handles = IF rd.rfile = 0 THEN @ ELSE [@ EXCEPT ![rd.rfile] = "closed"],
                            !.rfile = 0, !.prods[p].pc = "done"]
        /\ UNCHANGED <<graphVars, loadVars, csv, br, fn>>

Producer ==
    \/ RD_ReadRows
    \/ RD_CloseIsOpen
    \/ RD_CloseWasClosed
    \/ RD_CloseFile

NextReader ==
    \/ RD_IsEmpty
    \/ RD_Next
    \/ RD_Receive
    \/ RD_Stop
    \/ RD_ReadRows
    \/ RD_CloseIsOpen
    \/ RD_CloseWasClosed
    \/ RD_CloseFile

SpecReader == InitReader /\ [][NextReader]_vars

\* The producer goroutines run whenever they can: the Go scheduler starves
\* no runnable goroutine. The consumer is free to stop.
SpecReaderLive ==
    /\ InitReader
    /\ [][NextReader]_vars
    /\ WF_vars(Producer)

-----------------------------------------------------------------------------
(* utils.ConvertToCSVReader as a pipeline: the row source, the two stage   *)
(* goroutines, the two io.Pipe pipes and the reader of COPY (csv_utils.go) *)
(* The stream is counted in rows: a unit is one row's bytes, raw as the    *)
(* csv.Writer wrote them or processed by the second stage.                 *)

\* Largest number of rows the source of a bridge holds.
MaxBridgeRows == 2

RawUnit(i) == [row |-> i, processed |-> FALSE]

\* processFunc applied to a block: every unit of the block is processed
ProcessBlock(s) == [i \in 1..Len(s) |-> [s[i] EXCEPT !.processed = TRUE]]

\* The sizes a Read may return from a pending write of n units: a part or all
ReadSizes(n) == {1, n}

\* convertToCSVReader: both pipes are new, both goroutines are at their start.
\* The second stage leaves its select with return in one version of the file
\* and with break in the other (onError); readErr records that a Read of the
\* second stage returned an error.
NewBridge(n) ==
    [pc |-> "run", left |-> n, total |-> n, ctxDone |-> FALSE,
     s1 |-> "next", cont |-> "next", cbuf |-> <<>>, written |-> <<>>,
     p1 |-> <<>>, pwClosed |-> FALSE, prClosed |-> FALSE,
     s2 |-> "read", p2 |-> <<>>, wClosed |-> FALSE,
     cons |-> "read", recv |-> <<>>, onError |-> "return", readErr |-> FALSE]

\* The first stage returns without closing its pipe writer
Stage1Return_NoClose(b) == [b EXCEPT !.s1 = "done"]

\* The first stage returns: the deferred pw.Close()
Stage1Return(b) == [b EXCEPT !.s1 = "done", !.pwClosed = TRUE]

\* The second stage returns: the deferred pr.Close() and w.Close()
Stage2Return(b) == [b EXCEPT !.s2 = "done", !.prClosed = TRUE, !.wClosed = TRUE]

\* The second stage after pr.Read returned io.EOF or an error: return runs
\* the deferred closes; break leaves the select only, and the for loop goes
\* on to the next select and the next Read.
Stage2ReadError(b) ==
    IF b.onError = "break"
    THEN [b EXCEPT !.readErr = TRUE]
    ELSE Stage2Return([b EXCEPT !.readErr = TRUE])

InitBridge ==
    /\ Nodes = NewFKeysGraph.Nodes
    /\ Graph = NewFKeysGraph.Graph
    /\ phase = "idle"
    /\ acyclicRes = <<>>
    /\ sortRes = <<>>
    /\ orderedRes = <<>>
    /\ conf = NoConfig
    /\ mainPc = "idle"
    /\ ti = 1
    /\ wt = WtIdle
    /\ rows = [t \in LoadTables |-> 0]
    /\ committed = rows
    /\ res = [t \in LoadTables |-> NoCall]
    /\ callSeq = <<>>
    /\ loaded = {}
    /\ tr = TrIdle
    /\ csv = IoIdle
    /\ rd = IoIdle
    /\ \E n \in 0..MaxBridgeRows : br = NewBridge(n)
    /\ fn = IoIdle

\* The caller cancels the context it handed to convertToCSVReader
BR_Cancel ==
    /\ br.pc = "run"
    /\ ~br.ctxDone
    /\ br' = [br EXCEPT !.ctxDone = TRUE]
    /\ UNCHANGED <<graphVars, loadVars, csv, rd, fn>>

\* First stage: for source.Next()
BR_SourceNext ==
    /\ br.s1 = "next"
    /\ br' = IF br.left > 0 THEN [br EXCEPT !.s1 = "select", !.left = @ - 1]
             ELSE [br EXCEPT !.s1 = "flush"]
    /\ UNCHANGED <<graphVars, loadVars, csv, rd, fn>>

\* First stage: the select. With the context done the stage goes to its
\* Flush and returns; otherwise the record goes to the csv.Writer, whose
\* buffer keeps it or, when full, writes everything it holds to the pipe.
BR_Select ==
    /\ br.s1 = "select"
    /\ \/ /\ br.ctxDone
          /\ br' = [br EXCEPT !.s1 = "flush"]
       \/ /\ ~br.ctxDone
          /\ LET unit == RawUnit(br.total - br.left)
             IN \/ br' = [br EXCEPT !.s1 = "next", !.cbuf = Append(@, unit),
                                    !.written = Append(@, unit)]
                \/ br' = [br EXCEPT !.s1 = "pwrite", !.cont = "next", !.cbuf = <<>>,
                                    !.p1 = Append(br.cbuf, unit), !.written = Append(@, unit)]
    /\ UNCHANGED <<graphVars, loadVars, csv, rd, fn>>

\* First stage: csvWriter.Flush() after the loop or after the cancellation
BR_Flush ==
    /\ br.s1 = "flush"
    /\ br' = IF br.cbuf = <<>> THEN Stage1Return(br)
             ELSE [br EXCEPT !.s1 = "pwrite", !.cont = "return", !.cbuf = <<>>, !.p1 = br.cbuf]
    /\ UNCHANGED <<graphVars, loadVars, csv, rd, fn>>

\* First stage: the write to the first pipe returns, when the second stage
\* has read all of it, or with io.ErrClosedPipe when the read end is closed
BR_PipeWriteReturns ==
    /\ br.s1 = "pwrite"
    /\ \/ /\ br.prClosed
          /\ br' = Stage1Return([br EXCEPT !.p1 = <<>>])
       \/ /\ ~br.prClosed
          /\ br.p1 = <<>>
          /\ br' = IF br.cont = "next" THEN [br EXCEPT !.s1 = "next"] ELSE Stage1Return(br)
    /\ UNCHANGED <<graphVars, loadVars, csv, rd, fn>>

\* Second stage: pr.Read(buf), processFunc, and the start of w.Write; at the
\* end of the stream Read returns io.EOF. Its context is context.Background().
BR_Stage2Read ==
    /\ br.s2 = "read"
    /\ \/ /\ br.p1 # <<>>
          /\ \E k \in ReadSizes(Len(br.p1)) :
               br' = [br EXCEPT !.s2 = "write", !.p2 = ProcessBlock(SubSeq(br.p1, 1, k)),
                                !.p1 = SubSeq(br.p1, k + 1, Len(br.p1))]
       \/ /\ br.p1 = <<>>
          /\ br.pwClosed
          /\ br' = Stage2ReadError(br)
    /\ UNCHANGED <<graphVars, loadVars, csv, rd, fn>>

\* Second stage: w.Write returns when the reader of COPY has read all of it
BR_Stage2WriteReturns ==
    /\ br.s2 = "write"
    /\ br.p2 = <<>>
    /\ br' = [br EXCEPT !.s2 = "read"]
    /\ UNCHANGED <<graphVars, loadVars, csv, rd, fn>>

\* pgConn.CopyFrom reads from the reader the bridge returned
BR_CopyRead ==
    /\ br.cons = "read"
    /\ \/ /\ br.p2 # <<>>
          /\ \E k \in ReadSizes(Len(br.p2)) :
               br' = [br EXCEPT !.recv = @ \o SubSeq(br.p2, 1, k),
                                !.p2 = SubSeq(br.p2, k + 1, Len(br.p2))]
       \/ /\ br.p2 = <<>>
          /\ br.wClosed
          /\ br' = [br EXCEPT !.cons = "eof"]
    /\ UNCHANGED <<graphVars, loadVars, csv, rd, fn>>

\* pgConn.CopyFrom returns with an error of the server and reads no more
BR_CopyStops ==
    /\ br.cons = "read"
    /\ br' = [br EXCEPT !.cons = "stopped"]
    /\ UNCHANGED <<graphVars, loadVars, csv, rd, fn>>

Stage1 == BR_SourceNext \/ BR_Select \/ BR_Flush \/ BR_PipeWriteReturns

Stage2 == BR_Stage2Read \/ BR_Stage2WriteReturns

NextBridge ==
    \/ BR_Cancel
    \/ BR_SourceNext
    \/ BR_Select
    \/ BR_Flush
    \/ BR_PipeWriteReturns
    \/ BR_Stage2Read
    \/ BR_Stage2WriteReturns
    \/ BR_CopyRead
    \/ BR_CopyStops

\* Both goroutines run whenever they can, and a CopyFrom that has not
\* returned keeps reading.
SpecBridge ==
    /\ InitBridge
    /\ [][NextBridge]_vars
    /\ WF_vars(Stage1)
    /\ WF_vars(Stage2)
    /\ WF_vars(BR_CopyRead)

\* The pipeline of src/csv_utils.go, whose second stage leaves its select
\* with break where the other version of the file has return
InitBridgeBreak ==
    /\ Nodes = NewFKeysGraph.Nodes
    /\ Graph = NewFKeysGraph.Graph
    /\ phase = "idle"
    /\ acyclicRes = <<>>
    /\ sortRes = <<>>
    /\ orderedRes = <<>>
    /\ conf = NoConfig
    /\ mainPc = "idle"
    /\ ti = 1
    /\ wt = WtIdle
    /\ rows = [t \in LoadTables |-> 0]
    /\ committed = rows
    /\ res = [t \in LoadTables |-> NoCall]
    /\ callSeq = <<>>
    /\ loaded = {}
    /\ tr = TrIdle
    /\ csv = IoIdle
    /\ rd = IoIdle
    /\ \E n \in 0..MaxBridgeRows : br = [NewBridge(n) EXCEPT !.onError = "break"]
    /\ fn = IoIdle

SpecBridgeBreak ==
    /\ InitBridgeBreak
    /\ [][NextBridge]_vars
    /\ WF_vars(Stage1)
    /\ WF_vars(Stage2)
    /\ WF_vars(BR_CopyRead)

-----------------------------------------------------------------------------
(* FieldMapper.Transform: one cell of a Parquet row (field_mapper.go)      *)
(* A cell x is [null, kind, v]: kind is the Parquet kind of the value, v   *)
(* its payload.  column is m.Info.Columns[x.Column()].                     *)

\* The original types Transform knows by name
ListedTypes ==
    {"boolean", "bigint", "integer", "smallint", "double precision", "real", "numeric",
     "character varying", "text", "timestamp without time zone", "date", "jsonb", "ARRAY"}

\* The original types the columns of the model carry
OriginalTypes ==
    ListedTypes \cup {"USER-DEFINED", "uuid", "bytea", "timestamp with time zone", "TEXT"}

\* The expected exported types the columns of the model carry
ExpectedExportedTypes == {"binary (UTF8)", "binary", "int64"}

Columns == [OriginalType : OriginalTypes, ExpectedExportedType : ExpectedExportedTypes]

\* The cells of the model
Cells == [null : {TRUE}, kind : {"Null"}, v : {0}]
         \cup [null : {FALSE}, kind : {"Boolean", "Int64", "ByteArray"}, v : 0..1]

\* What a call of Transform ends in: the pair (value, err) it returns, or a panic.
\* A value is Go's nil or the cell read through one accessor of parquet.Value.
Returned(value) == [panic |-> FALSE, value |-> value, err |-> "nil"]
Panicked(msg) == [panic |-> TRUE, value |-> <<>>, err |-> msg]
GoNil == <<"nil">>
Read(accessor, x) == <<accessor, x.kind, x.v>>

Unexpected_ReturnString(column, x) == Returned(Read("String", x))

\* Transform for a column that none of its cases took: it logs and panics.
Unexpected(column, x) == Panicked("unexpected column type: " \o column.OriginalType)

\* FieldMapper.Transform
Transform(column, x) ==
    IF x.null THEN Returned(GoNil)
    ELSE CASE column.OriginalType = "boolean" -> Returned(Read("Boolean", x))
           [] column.OriginalType = "bigint" -> Returned(Read("Int64", x))
           [] column.OriginalType \in {"integer", "smallint"} -> Returned(Read("Int32", x))
           [] column.OriginalType = "double precision" -> Returned(Read("Double", x))
           [] column.OriginalType = "real" -> Returned(Read("Float", x))
           [] column.OriginalType \in {"numeric", "character varying", "text",
                                       "timestamp without time zone", "date", "jsonb",
                                       "ARRAY"} -> Returned(Read("String", x))
           [] /\ column.OriginalType = "USER-DEFINED"
              /\ column.ExpectedExportedType = "binary (UTF8)" -> Returned(Read("String", x))
           [] OTHER -> Unexpected(column, x)

InitTransform ==
    /\ Nodes = NewFKeysGraph.Nodes
    /\ Graph = NewFKeysGraph.Graph
    /\ phase = "idle"
    /\ acyclicRes = <<>>
    /\ sortRes = <<>>
    /\ orderedRes = <<>>
    /\ conf = NoConfig
    /\ mainPc = "idle"
    /\ ti = 1
    /\ wt = WtIdle
    /\ rows = [t \in LoadTables |-> 0]
    /\ committed = rows
    /\ res = [t \in LoadTables |-> NoCall]
    /\ callSeq = <<>>
    /\ loaded = {}
    /\ tr = TrIdle
    /\ csv = IoIdle
    /\ rd = IoIdle
    /\ br = IoIdle
    /\ \E column \in Columns, x \in Cells :
         fn = [pc |-> "call", column |-> column, x |-> x, out |-> <<>>]

\* The reader's goroutine calls r.mapper.Transform(x).
TF_Transform ==
    /\ fn.pc = "call"
    /\ fn' = [fn EXCEPT !.pc = "done", !.out = Transform(fn.column, fn.x)]
    /\ UNCHANGED <<graphVars, loadVars, csv, rd, br>>

NextTransform == TF_Transform

SpecTransform == InitTransform /\ [][NextTransform]_vars

-----------------------------------------------------------------------------
(* utils.CreatePgxIdentifier and utils.SanitizeTableName (sql_utils.go)    *)
(* A string is a sequence of one-character tokens.                         *)

\* Largest number of characters of a table name
MaxNameChars == 4

Dot == "."

\* The table names of the model: letters, dots and double quotes
RECURSIVE NameStrings(_)
NameStrings(n) ==
    IF n = 0 THEN {<<>>}
    ELSE NameStrings(n - 1)
         \cup {<<c>> \o s : c \in {"s", "t", Dot, Quote},
                            s \in {x \in NameStrings(n - 1) : Len(x) = n - 1}}

\* Split at the first dot only, as strings.SplitN(s, ".", 2) does.
Split_AtFirst(s) ==
    LET dots == {i \in 1..Len(s) : s[i] = Dot}
    IN IF dots = {} THEN <<s>>
       ELSE LET i == CHOOSE d \in dots : \A e \in dots : d <= e
            IN <<SubSeq(s, 1, i - 1), SubSeq(s, i + 1, Len(s))>>

\* strings.Split(s, "."): the pieces between the dots, empty ones included
RECURSIVE Split(_)
Split(s) ==
    LET dots == {i \in 1..Len(s) : s[i] = Dot}
    IN IF dots = {} THEN <<s>>
       ELSE LET i == CHOOSE d \in dots : \A e \in dots : d <= e
            IN <<SubSeq(s, 1, i - 1)>> \o Split(SubSeq(s, i + 1, Len(s)))

\* pgx.Identifier.Sanitize: every part between double quotes with its own
\* double quotes doubled, the parts joined by dots
RECURSIVE Sanitize(_)
Sanitize(identifier) ==
    IF identifier = <<>> THEN <<>>
    ELSE <<Quote>> \o QuotedBody(Head(identifier)) \o <<Quote>>
         \o (IF Len(identifier) > 1 THEN <<Dot>> ELSE <<>>)
         \o Sanitize(Tail(identifier))

\* utils.CreatePgxIdentifier
CreatePgxIdentifier(s) ==
    IF \E i \in 1..Len(s) : s[i] = Dot
    THEN LET parts == Split(s)
         IN IF Len(parts) # 2 THEN <<s>> ELSE <<parts[1], parts[2]>>
    ELSE <<s>>

\* utils.SanitizeTableName
SanitizeTableName(s) ==
    IF \E i \in 1..Len(s) : s[i] = Dot
    THEN LET parts == Split(s)
         IN IF Len(parts) # 2 THEN Sanitize(<<s>>) ELSE Sanitize(<<parts[1], parts[2]>>)
    ELSE Sanitize(<<s>>)

InitNames ==
    /\ Nodes = NewFKeysGraph.Nodes
    /\ Graph = NewFKeysGraph.Graph
    /\ phase = "idle"
    /\ acyclicRes = <<>>
    /\ sortRes = <<>>
    /\ orderedRes = <<>>
    /\ conf = NoConfig
    /\ mainPc = "idle"
    /\ ti = 1
    /\ wt = WtIdle
    /\ rows = [t \in LoadTables |-> 0]
    /\ committed = rows
    /\ res = [t \in LoadTables |-> NoCall]
    /\ callSeq = <<>>
    /\ loaded = {}
    /\ tr = TrIdle
    /\ csv = IoIdle
    /\ rd = IoIdle
    /\ br = IoIdle
    /\ \E s \in NameStrings(MaxNameChars) : fn = [pc |-> "call", s |-> s, out |-> <<>>]

\* A caller formats a query with utils.SanitizeTableName(tableName).
FN_SanitizeTableName ==
    /\ fn.pc = "call"
    /\ fn' = [fn EXCEPT !.pc = "SanitizeTableName", !.out = SanitizeTableName(fn.s)]
    /\ UNCHANGED <<graphVars, loadVars, csv, rd, br>>

\* A caller hands utils.CreatePgxIdentifier(tableName) to CopyFrom, which sanitizes it.
FN_CreatePgxIdentifier ==
    /\ fn.pc = "call"
    /\ fn' = [fn EXCEPT !.pc = "CreatePgxIdentifier",
                        !.out = Sanitize(CreatePgxIdentifier(fn.s))]
    /\ UNCHANGED <<graphVars, loadVars, csv, rd, br>>

NextNames ==
    \/ FN_SanitizeTableName
    \/ FN_CreatePgxIdentifier

SpecNames == InitNames /\ [][NextNames]_vars

-----------------------------------------------------------------------------
(* Properties of the graph algorithms *)

\* The FK edges parent -> child of the graph with parent # child
Edges(g) == {pc \in (DOMAIN g.Graph) \X Names :
               pc[2] \in ChildNames(g.Nodes[g.Graph[pc[1]]]) /\ pc[1] # pc[2]}

\* Names that occur only as a child, never as a node of the graph
LeafOnly(g) == {c \in Names : c \notin DOMAIN g.Graph
                                /\ \E p \in DOMAIN g.Graph : c \in ChildNames(g.Nodes[g.Graph[p]])}

\* The names reachable from n over at least one edge between distinct tables
RECURSIVE ReachFrom(_, _, _)
ReachFrom(g, frontier, seen) ==
    LET next == {pc[2] : pc \in {e \in Edges(g) : e[1] \in frontier}} \ seen
    IN IF next = {} THEN seen ELSE ReachFrom(g, next, seen \cup next)

\* A directed cycle of length at least two among the known nodes
HasCycle(g) == \E n \in DOMAIN g.Graph : n \in ReachFrom(g, {n}, {})

\* Number of positions of the sequence s that hold x
Occurrences(s, x) == Cardinality({i \in 1..Len(s) : s[i] = x})

\* C1: on a graph IsAcyclic accepts, TopologicalSort's output contains both ends of every
\* edge u -> v (u # v) and places v strictly before u. The code breaks it: a node with a
\* self-edge is never a root.
C1_EdgesOrdered ==
    (phase = "sorted" /\ acyclicRes = <<TRUE>>) =>
        \A e \in Edges(G) :
            /\ IndexOf(sortRes[1].list, e[1]) > 0
            /\ IndexOf(sortRes[1].list, e[2]) > 0
            /\ IndexOf(sortRes[1].list, e[2]) < IndexOf(sortRes[1].list, e[1])

\* C2: when GetTablesOrdered returns a nil error, every FK edge parent -> child between two
\* different tables of the returned list has the child at a smaller position than the parent.
C2_ReturnedOrderRespectsEdges ==
    (phase = "ordered" /\ orderedRes[1].err = "nil") =>
        \A e \in Edges(G) :
            (e[1] \in Range(orderedRes[1].ret) /\ e[2] \in Range(orderedRes[1].ret)) =>
                IndexOf(orderedRes[1].ret, e[2]) < IndexOf(orderedRes[1].ret, e[1])

\* C2 witness: a list was returned without error that holds both ends of an FK edge.
C2_Witness ==
    /\ phase = "ordered" /\ orderedRes[1].err = "nil"
    /\ \E e \in Edges(G) : e[1] \in Range(orderedRes[1].ret) /\ e[2] \in Range(orderedRes[1].ret)

\* C9: IsAcyclic returns false exactly when the known nodes contain a directed cycle of
\* length at least two, whatever the order in which the maps are iterated.
C9_IsAcyclicIffNoCycle ==
    (acyclicRes # <<>>) => (acyclicRes[1] = ~HasCycle(G))

\* C9 witness: IsAcyclic returned true on a graph with a self-edge and a leaf-only child.
C9_Witness ==
    /\ acyclicRes = <<TRUE>>
    /\ \E n \in DOMAIN Graph : n \in ChildNames(Nodes[Graph[n]])
    /\ LeafOnly(G) # {}
    /\ Cardinality(DOMAIN Graph) >= 2

\* All (parent, child) keys of the graph, self-edges included
AllEdges(g) == {pc \in (DOMAIN g.Graph) \X Names : pc[2] \in ChildNames(g.Nodes[g.Graph[pc[1]]])}

\* The graph with the given nodes and edges, built in ascending order of the names
RECURSIVE AddNodesInOrder(_, _)
AddNodesInOrder(g, names) ==
    IF names = <<>> THEN g ELSE AddNodesInOrder(AddNode(g, Head(names)), Tail(names))

RECURSIVE AddChildrenOf(_, _)
AddChildrenOf(g, edges) ==
    IF edges = {} THEN g
    ELSE LET e == CHOOSE x \in edges : TRUE
         IN AddChildrenOf([g EXCEPT !.Nodes[g.Graph[e[1]]] = AddChild(@, e[2], 1)], edges \ {e})

CanonGraph(nodes, edges) ==
    CalculateInDegree(AddChildrenOf(AddNodesInOrder(NewFKeysGraph, SortedSeq(nodes)), edges))

\* C11: TopologicalSort returns the same sequence for every graph with the same nodes and
\* edges, in whatever order the nodes and children were added: the result equals the one
\* for the graph built in ascending order of the names.
C11_SortDeterministic ==
    (phase = "sorted") =>
        sortRes[1].list = TopologicalSort(CanonGraph(DOMAIN Graph, AllEdges(G))).list

\* C11 witness: two roots whose indexes are in the opposite order of their names were
\* sorted, each with a child.
C11_Witness ==
    /\ phase = "sorted"
    /\ Len(sortRes[1].list) >= 3
    /\ \E a \in RootNames(G), b \in RootNames(G) :
          /\ a < b /\ Graph[a] > Graph[b]
          /\ ChildNames(Nodes[Graph[a]]) # {}

\* C10: on a graph IsAcyclic accepts, every known node and every leaf-only child name occurs
\* exactly once in TopologicalSort's output. The code breaks it: {A -> A} sorts to [].
C10_EveryNameOnce ==
    (phase = "sorted" /\ acyclicRes = <<TRUE>>) =>
        \A n \in (DOMAIN Graph) \cup LeafOnly(G) : Occurrences(sortRes[1].list, n) = 1

-----------------------------------------------------------------------------
(* Properties of the table loop and of WriteTable *)

\* C3: the tables are loaded one at a time in the order GetTablesOrdered returned: every
\* WriteTable call but the last one has returned, the calls follow the order of the list,
\* and of an FK edge u -> v whose two tables are both loaded (their transactions
\* committed) v's call came before u's.
C3_LoadOrder ==
    /\ \A i \in 1..(Len(callSeq) - 1) : res[callSeq[i]].state = "returned"
    /\ \A i \in 1..Len(callSeq) : \A j \in 1..Len(callSeq) :
          i < j => IndexOf(Tables, callSeq[i]) < IndexOf(Tables, callSeq[j])
    /\ \A e \in Edges(G) :
          (res[e[1]].tx = "committed" /\ res[e[2]].tx = "committed") =>
              IndexOf(callSeq, e[2]) < IndexOf(callSeq, e[1])

\* C3 witness: both tables of an FK edge are loaded and main has moved on.
C3_Witness ==
    /\ mainPc \in {"loop", "done"}
    /\ \E e \in Edges(G) : res[e[1]].tx = "committed" /\ res[e[2]].tx = "committed"

\* C4: when WriteTable returns with its transaction committed, the table holds the rows it
\* held when the call began plus the sum of the row counts declared by the Parquet files
\* the call processed. The code breaks it: a failed count before the copy reads as -1.
C4_RowCount ==
    (wt.pc = "returned" /\ res[T].tx = "committed") => rows[T] = wt.before + wt.declared

\* C5: when a statement of a step after Begin has returned an error (and nothing
\* panicked), WriteTable returns with the transaction rolled back, Commit not called and a
\* non-nil error. The code breaks it: the second loop of dropIndexes overwrites err.
C5_FailureRollsBack ==
    (wt.pc = "returned" /\ wt.stmtFailed /\ wt.panic = "none") =>
        (res[T].tx = "rolledback" /\ ~wt.commitCalled /\ wt.err)

\* C6: a panic in the loader's call chain or in the reader's producer goroutine is caught by
\* WriteTable and ends in a rollback of its transaction. The code breaks it: the producer
\* goroutine has no recover.
C6_PanicCaught ==
    (wt.panic # "none") => (mainPc # "crashed" /\ res[T].tx = "rolledback")

\* C7: WriteTable returns a nil error only when its transaction committed, so main logs
\* only committed tables as loaded. The code breaks it: a recovered panic returns nil.
C7_NilOnlyIfCommitted ==
    /\ (wt.pc = "returned" /\ ~wt.err) => res[T].tx = "committed"
    /\ \A t \in loaded : res[t].tx = "committed"

\* C8: once a WriteTable call has returned an error it is the last call of the run, main
\* does not go back to its loop, the failing table has no open or committed transaction and
\* holds its committed rows only, and every table committed before keeps the rows it was
\* committed with.
C8_StopAtFirstError ==
    \A i \in 1..Len(callSeq) :
        (res[callSeq[i]].state = "returned" /\ res[callSeq[i]].err) =>
            /\ i = Len(callSeq)
            /\ mainPc = "done" \/ (mainPc = "call" /\ wt.pc = "returned")
            /\ res[callSeq[i]].tx \in {"rolledback", "none"}
            /\ rows[callSeq[i]] = committed[callSeq[i]]
            /\ \A j \in 1..(i - 1) :
                  res[callSeq[j]].tx = "committed" =>
                      /\ committed[callSeq[j]] = res[callSeq[j]].after
                      /\ rows[callSeq[j]] = res[callSeq[j]].after

\* C8 witness: the second call returned an error after its transaction had been opened,
\* the first one had committed rows, a table was left, and main has ended its loop.
C8_Witness ==
    /\ mainPc = "done"
    /\ Len(callSeq) = 2
    /\ res[callSeq[1]].tx = "committed" /\ res[callSeq[1]].after > 0
    /\ res[callSeq[2]].err /\ res[callSeq[2]].tx = "rolledback"
    /\ ti < Len(Tables)

-----------------------------------------------------------------------------
(* The CSV bridge, one row *)

HasPlaceholder(row) ==
    \E i \in 1..Len(row) : \E j \in 1..Len(row[i].s) : row[i].s[j] = NeverHappeningCharacter

\* C12: a row without the placeholder byte in its cells is decoded by COPY's
\* CSV rules to the same row: NULL stays NULL, the empty string stays the
\* empty string, every other cell keeps its characters, and the line is
\* consumed whole.
C12_CsvRoundTrip ==
    (csv.pc = "copied" /\ ~HasPlaceholder(csv.row)) =>
        /\ csv.copied.row = csv.row
        /\ csv.copied.rest = <<>>
        /\ csv.copied.complete

\* A row of a NULL and an empty string went through and left the bridge as
\* an unquoted and a quoted empty field
C12_Witness ==
    /\ csv.pc = "copied"
    /\ ~HasPlaceholder(csv.row)
    /\ Len(csv.row) = 2
    /\ \E i \in 1..2, j \in 1..2 : csv.row[i].isNil /\ csv.row[j] = StrCell(<<>>)
    /\ csv.out = <<Comma, Quote, Quote, LF>> \/ csv.out = <<Quote, Quote, Comma, LF>>

\* C19: a row with the placeholder byte in a cell is rejected: the bridge
\* reports an error and delivers none of its bytes to COPY.
\* The code breaks it: no cell is validated, the byte leaves the bridge as "".
C19_PlaceholderRejected ==
    (csv.pc \in {"out", "copied"} /\ HasPlaceholder(csv.row)) => (csv.err /\ csv.out = <<>>)

-----------------------------------------------------------------------------
(* The ParquetReader *)

\* C13: a reader opens its file at most once and starts at most one producer
\* goroutine and one channel, in every interleaving of the consumer's IsEmpty
\* and Next calls with the producer's deferred Close.
\* The code breaks it: Close clears isOpen before it sets wasClosed, and a call
\* of the consumer between the two finds the reader neither open nor closed.
C13_SingleUse ==
    /\ Len(rd.handles) <= 1
    /\ Len(rd.prods) <= 1
    /\ Len(rd.chans) <= 1

\* The producer goroutine p has left its loops
Exited(p) == rd.prods[p].pc \in {"close", "closeWasClosed", "closeFile", "done"}

\* C14: when the only producer hit a ReadRows error other than io.EOF or a
\* Transform error and has left its loops, a Next that returned false leaves
\* an error recorded (Err is not nil), and no row after the failing one was
\* delivered.
\* The code breaks it: both errors are only logged; Next sees a closed channel
\* and returns false with lastError still nil.
C14_ProducerFailureReported ==
    (/\ Len(rd.prods) = 1
     /\ rd.fault.kind \in {"read", "transform"}
     /\ Exited(1)
     /\ rd.pc = "idle"
     /\ rd.lastNext = "false")
    => /\ rd.lastError # "nil"
       /\ \A i \in 1..Len(rd.got) : rd.got[i] < rd.fault.at

\* Every producer goroutine has returned and every file handle is closed
AllReleased ==
    /\ \A p \in 1..Len(rd.prods) : rd.prods[p].pc = "done"
    /\ \A h \in 1..Len(rd.handles) : rd.handles[h] = "closed"

\* C15: when the consumer stops calling Next while the only producer is still
\* in its loops, the producer eventually returns and the file handle is closed.
\* The code breaks it: the channel is unbuffered and nothing cancels the send,
\* so the producer stays in r.channel <- rowData and the file stays open.
C15_ProducerReleased ==
    (rd.pc = "stopped" /\ Len(rd.prods) = 1 /\ ~Exited(1)) ~> AllReleased

\* The rows of the file in file order
FileRows == [i \in 1..NumRows(rd.file) |-> i]

\* C16: for a non-empty file read without error, the rows of the successful
\* Next calls are at every moment a prefix of the file's rows in file order,
\* and once Next has returned false they are all the rows, each once, and
\* their number is RowCount().
\* The code breaks it: a Next that falls between the two writes of the
\* producer's Close reopens the file, and the rows are delivered again.
C16_RowsExactlyOnce ==
    (rd.fault.kind = "none" /\ ~rd.openErr /\ rd.file # <<>>)
    => /\ Len(rd.got) <= NumRows(rd.file)
       /\ rd.got = SubSeq(FileRows, 1, Len(rd.got))
       /\ (rd.pc = "idle" /\ rd.lastNext = "false") =>
              /\ rd.got = FileRows
              /\ rd.rowCounter = rd.rowCount

-----------------------------------------------------------------------------
(* The CSV bridge as a pipeline *)

\* Both stage goroutines have returned and both pipes are closed
BridgeClosed ==
    /\ br.s1 = "done" /\ br.s2 = "done"
    /\ br.pwClosed /\ br.prClosed /\ br.wClosed

\* C17: once source.Next has returned false, and unless CopyFrom stops
\* reading, the bridge ends: both stages return, both pipes are closed, and
\* the reader of COPY has received every unit the first stage wrote, processed
\* and in order, followed by the end of the stream.
C17_ExhaustedSourceDrains ==
    (br.pc = "run" /\ br.s1 = "flush" /\ ~br.ctxDone) ~>
        \/ br.cons = "stopped"
        \/ /\ BridgeClosed
           /\ br.cons = "eof"
           /\ br.recv = ProcessBlock(br.written)

\* The source gave all its rows and the reader of COPY saw them and the end
C17_Witness ==
    /\ br.pc = "run"
    /\ BridgeClosed
    /\ br.cons = "eof"
    /\ br.left = 0
    /\ ~br.ctxDone
    /\ Len(br.recv) = MaxBridgeRows
    /\ br.recv = ProcessBlock(br.written)

\* C38: in the version of the file with break, a second stage whose Read
\* returned io.EOF or an error has left its loop: it has returned, and the
\* read end of the first pipe and the write end of the second are closed.
\* The code breaks it: break leaves the select, not the for loop; the stage
\* reads again, gets io.EOF again, and so on without end; its context is
\* context.Background(), so it never returns, never closes the second pipe,
\* and the reader of COPY never sees the end of the stream.
C38_ReadErrorEndsStage ==
    br.readErr => (br.s2 = "done" /\ br.prClosed /\ br.wClosed)

\* C18: once the context handed to the bridge is cancelled, both stage
\* goroutines return and both pipes are closed, also when CopyFrom has
\* stopped reading and a stage is in a pipe write.
\* The code breaks it: the second stage runs under context.Background(), and
\* a stage in a pipe write with no reader never looks at its context.
C18_CancelEndsBridge ==
    (br.pc = "run" /\ br.ctxDone) ~> BridgeClosed

-----------------------------------------------------------------------------
(* The objects dropped and restored by a table load *)

\* C20: when a WriteTable call in which no statement failed has committed,
\* the constraints and indexes its restore step created are exactly those its
\* drop step removed.
\* The code breaks it: dropIndexes drops a UNIQUE constraint (it skips primary
\* keys only), restoreIndexes skips it (regExCon) and never adds it back.
C20_RestoreMatchesDrop ==
    (/\ wt.pc = "returned"
     /\ res[T].tx = "committed"
     /\ ~wt.stmtFailed
     /\ wt.panic = "none")
    => wt.restored = wt.dropped

\* The primary-key constraint and the definitions of the unique index that
\* backs a primary key, among the texts the introspection queries return
PrimaryKeyObjects ==
    {"PRIMARY KEY (id)", "CREATE UNIQUE INDEX t_pkey ON t (id)",
     "CREATE UNIQUE INDEX t_pkey ON t (code)"}

\* C21: a table load executes no DROP CONSTRAINT for the primary-key constraint
\* and no DROP INDEX for the unique index that backs it.
\* The code breaks it: regExIdx wants the text "id" after UNIQUE INDEX, so the
\* index of a primary key on a column named code is dropped like any other.
C21_PrimaryKeyKept ==
    wt.dropped \cap PrimaryKeyObjects = {}

\* C22: when a subfolder with files of the table has no _success or _SUCCESS
\* marker, the WriteTable call (one in which nothing panicked) returns an
\* error, its transaction is rolled back, and the table holds the rows it held
\* before the call.
\* The code breaks it: the error of ListFilesRecursively is dropped, the list
\* is then empty, no subfolder is checked and the empty load commits.
C22_MarkerRequired ==
    (wt.pc = "returned" /\ wt.unmarked /\ wt.panic = "none")
    => /\ wt.err
       /\ res[T].tx = "rolledback"
       /\ rows[T] = wt.before

\* A writeTablePart call that skipped its file: no row-count query, no COPY,
\* no row returned, no error, and the loop over the files goes on.
SkippedWithoutError ==
    /\ wt.part.called /\ wt.part.exit = "return" /\ ~wt.part.err
    /\ wt.part.queries = 0 /\ ~wt.part.copy /\ wt.part.ret = 0

\* C23: writeTablePart skips a file without error exactly when the file opened
\* and declares zero rows; when opening failed it returns an error, also
\* without a query or a COPY.
C23_SkipOnlyEmptyFile ==
    wt.part.called
    => /\ SkippedWithoutError <=> (~wt.part.openErr /\ wt.part.n = 0)
       /\ wt.part.openErr => (wt.part.err /\ wt.part.queries = 0 /\ ~wt.part.copy)

\* A file that opened and declares no rows was skipped, a later step of the
\* same call was reached and the call committed.
C23_Witness ==
    /\ wt.part.called /\ ~wt.part.openErr /\ wt.part.n = 0 /\ SkippedWithoutError
    /\ wt.pc = "returned" /\ res[T].tx = "committed" /\ ~wt.listErr

\* C24: a writeTablePart call on a non-empty file whose row count before or
\* after the copy came back as -1 returns an error.
\* The code breaks it: a count of -1 before the copy passes the comparison
\* post = pre + rows of the file when the table then holds one row less than
\* the file declares, as after a reader that ended early without an error.
C24_FailedCountIsError ==
    (/\ wt.part.called /\ wt.part.exit = "return"
     /\ \/ wt.part.queries >= 1 /\ wt.part.pre = -1
        \/ wt.part.queries = 2 /\ wt.part.post = -1)
    => wt.part.err

\* The reason for which a table that holds n rows is to be skipped under
\* configuration c; "" when it is to be loaded.
SkipReason(c, t, n) ==
    IF c.IncludeTables # {} /\ t \notin c.IncludeTables THEN ReasonSkippedByConfig1
    ELSE IF t \in c.ExcludeTables THEN ReasonSkippedByConfig2
    ELSE IF n > 0 /\ c.SkipNotEmpty THEN ReasonNotEmpty
    ELSE ""

\* C25: a table is skipped exactly when it is missing from a non-empty include
\* set, or is in the exclude set, or holds rows while SkipNotEmpty is set, with
\* the first of these reasons reported; a skipped table is no error and gets no
\* transaction and no change of its rows.
\* The code breaks it: when the row-count query of ShouldSkip fails the size is
\* -1, and a table that holds rows is loaded although SkipNotEmpty is set.
C25_SkipExactly ==
    /\ \A t \in LoadTables :
         res[t].state = "skipped"
         => /\ res[t].reason = SkipReason(conf, t, rows[t]) /\ res[t].reason # ""
            /\ ~res[t].err /\ res[t].tx = "none"
            /\ t \notin Range(callSeq) /\ rows[t] = committed[t]
    /\ mainPc = "call" => SkipReason(conf, T, wt.before) = ""

\* The tables in reverse of the order GetTablesOrdered returned
ReverseTables == [j \in 1..Len(Tables) |-> Tables[Len(Tables) + 1 - j]]

\* C26: TruncateAllTables checks the tables in the exact reverse of the load
\* order, issues a TRUNCATE for exactly the tables whose check reported rows,
\* counts the TRUNCATEs that succeeded, and after the first failing query
\* returns the error and leaves the tables it did not reach as they were.
C26_TruncateReverse ==
    tr.pc # "idle"
    => /\ tr.visited = SubSeq(ReverseTables, 1, Len(tr.visited))
       /\ Range(tr.issued) \subseteq tr.reported
       /\ tr.reported = {t \in Range(tr.visited) : tr.rows0[t] > 0}
       /\ tr.pc # "exec" => Range(tr.issued) = tr.reported
       /\ tr.succeeded \subseteq Range(tr.issued)
       /\ tr.truncatedCount = Cardinality(tr.succeeded)
       /\ \A t \in LoadTables :
            mainPc \in {"truncate", "done"} /\ t \notin Range(callSeq)
            => rows[t] = IF t \in tr.succeeded THEN 0 ELSE tr.rows0[t]
       /\ (tr.pc \in {"returned", "done"} /\ ~tr.err) => tr.visited = ReverseTables
       /\ (tr.pc \in {"returned", "done"} /\ tr.err)
          => /\ Len(tr.visited) < Len(ReverseTables) \/ Range(tr.issued) # tr.succeeded
             /\ Cardinality(Range(tr.issued) \ tr.succeeded) <= 1
             /\ callSeq = <<>>

\* A call that truncated two tables, passed over an empty one, and failed on
\* the check of a later table.
C26_Witness ==
    /\ tr.pc = "done" /\ tr.err /\ tr.truncatedCount = 1
    /\ Len(tr.visited) = 2 /\ Cardinality(tr.reported) = 1
    /\ \E t \in LoadTables : t \notin Range(tr.visited) /\ rows[t] > 0

\* The names that take part in a foreign key: the nodes and their children
Related(g) == (DOMAIN g.Graph) \cup
              UNION {ChildNames(g.Nodes[g.Graph[p]]) : p \in DOMAIN g.Graph}

\* C27: when GetTablesOrdered returns a nil error, the returned list is a
\* permutation of the list of all tables (each table once, nothing else), it
\* begins with the output of the topological sort, and every table without a
\* foreign-key relation comes after that part.
C27_PermutationOfTables ==
    (phase = "ordered" /\ orderedRes[1].err = "nil") =>
        LET ret    == orderedRes[1].ret
            tables == orderedRes[1].tables
            sorted == TopologicalSort(G).list
        IN /\ Len(ret) = Len(tables)
           /\ \A t \in Range(tables) : Occurrences(ret, t) = 1
           /\ Range(ret) \subseteq Range(tables)
           /\ Len(sorted) <= Len(ret) /\ SubSeq(ret, 1, Len(sorted)) = sorted
           /\ \A t \in Range(tables) \ Related(G) : IndexOf(ret, t) > Len(sorted)

\* C27 witness: a list returned without error in which two sorted tables are
\* followed by a table without a foreign-key relation.
C27_Witness ==
    /\ phase = "ordered" /\ orderedRes[1].err = "nil"
    /\ Len(TopologicalSort(G).list) >= 2
    /\ Range(orderedRes[1].tables) \ Related(G) # {}

\* The nodes no foreign key points to (no node has them as a child)
ZeroInDegree(g) == {n \in DOMAIN g.Graph : \A e \in AllEdges(g) : e[2] # n}

\* C30: any two nodes with in-degree zero both occur in TopologicalSort's
\* output, the one with the smaller name at the smaller position.
C30_RootsAscending ==
    (phase = "sorted") =>
        \A a \in ZeroInDegree(G), b \in ZeroInDegree(G) :
            a < b => /\ IndexOf(sortRes[1].list, a) > 0
                     /\ IndexOf(sortRes[1].list, a) < IndexOf(sortRes[1].list, b)

\* C30 witness: two nodes with in-degree zero were sorted; the one with the
\* larger name was added to the graph first, has a child, and is the last
\* element of the output.
C30_Witness ==
    /\ phase = "sorted"
    /\ \E a \in ZeroInDegree(G), b \in ZeroInDegree(G) :
          /\ a < b /\ Graph[b] < Graph[a]
          /\ ChildNames(Nodes[Graph[b]]) # {}
          /\ IndexOf(sortRes[1].list, b) = Len(sortRes[1].list)

\* C34: every Children list of the graph holds the payloads AddChild was called
\* with for that parent and child, and nothing else (every call of the build
\* passes the payload 1).
\* The code breaks it: AddChild stores make([]T, 1), a list of one zero value,
\* under a new key and appends the relation to its local slice only; the list
\* in the map is never assigned again and never holds a payload.
C34_ChildrenHoldPayloads ==
    \A i \in DOMAIN Nodes : \A c \in ChildNames(Nodes[i]) :
        /\ Nodes[i].Children[c] # <<>>
        /\ \A k \in 1..Len(Nodes[i].Children[c]) : Nodes[i].Children[c][k] = 1

\* C35: in every graph built with AddNode, index 0 holds the empty node and no
\* name maps to it; every name of the map has its own index i >= 1 with
\* Nodes[i].Name = name and Nodes[i].Index = i; GetNodeCount and GetGraphSize
\* both give the number of names.  AddNode with a name of the graph returns an
\* error and the graph as it was; with a new name it returns no error and adds
\* that one name at the next index, keeping the nodes it had.
C35_AddNodeIndexes ==
    /\ 0 \in DOMAIN Nodes /\ Nodes[0].Index = 0 /\ Nodes[0].Name = 0
    /\ ChildNames(Nodes[0]) = {}
    /\ \A n \in DOMAIN Graph :
          /\ Graph[n] >= 1 /\ Graph[n] \in DOMAIN Nodes
          /\ Nodes[Graph[n]].Name = n /\ Nodes[Graph[n]].Index = Graph[n]
          /\ \A m \in DOMAIN Graph : m # n => Graph[m] # Graph[n]
    /\ GetNodeCount(G) = Cardinality(DOMAIN Graph)
    /\ GetGraphSize(G) = Cardinality(DOMAIN Graph)
    /\ DOMAIN Nodes = 0..Cardinality(DOMAIN Graph)
    /\ \A name \in Names :
          LET h == AddNode(G, name)
          IN IF name \in DOMAIN Graph
             THEN AddNodeErr(G, name) /\ h = G
             ELSE /\ ~AddNodeErr(G, name)
                  /\ DOMAIN h.Graph = DOMAIN Graph \cup {name}
                  /\ h.Graph[name] = LenNodes(G)
                  /\ GetNodeCount(h) = GetNodeCount(G) + 1
                  /\ GetGraphSize(h) = GetGraphSize(G) + 1
                  /\ \A i \in DOMAIN Nodes : h.Nodes[i] = Nodes[i]
                  /\ \A n \in DOMAIN Graph : h.Graph[n] = Graph[n]

\* C35 witness: all names were added, the last one first, children were
\* attached, and AddNode refuses each of the names.
C35_Witness ==
    /\ phase = "build"
    /\ DOMAIN Graph = Names
    /\ Graph[MaxName] = 1
    /\ EdgeCount(G) > 0
    /\ \A name \in Names : AddNodeErr(G, name) /\ AddNode(G, name) = G

\* C36: after IsAcyclic has run, every node of the graph with an edge to itself
\* has its SelfCycle flag set and an Error text, a graph with a cycle among
\* distinct nodes has a node with an Error text, and the other nodes keep an
\* unset flag and an empty text.
\* The code breaks it: dfs works on node := g.Nodes[index], a copy of the
\* node, and sets SelfCycle and Error in the copy; the node array of the graph
\* is never written.
C36_FlagsInGraph ==
    phase \in {"checked", "sorted", "ordered"}
    => /\ \A n \in DOMAIN Graph :
            LET node == Nodes[Graph[n]]
            IN IF n \in ChildNames(node)
               THEN node.SelfCycle /\ node.Error # <<>>
               ELSE ~node.SelfCycle
       /\ HasCycle(G) => \E n \in DOMAIN Graph : Nodes[Graph[n]].Error # <<>>

\* C39: whatever graph TopologicalSort ran on, with cycles, self-edges or
\* children that are no nodes, its traversal ended with as many visited names
\* as names in its output, the output holds every visited name once, and the
\* branch that returns nil for an invalid sort was not taken.
C39_SortIsValid ==
    sortRes # <<>>
    => LET r == sortRes[1]
       IN /\ ~r.nil
          /\ Cardinality(r.visited) = Len(r.list)
          /\ Range(r.list) = r.visited
          /\ \A i, j \in 1..Len(r.list) : r.list[i] = r.list[j] => i = j

\* C39 witness: the sort ran on a graph in which a node has an edge to
\* itself and two nodes share a child that is no node, and returned a list
\* with that child in it.
C39_Witness ==
    /\ sortRes # <<>> /\ ~sortRes[1].nil
    /\ \E n \in DOMAIN Graph : n \in ChildNames(Nodes[Graph[n]])
    /\ \E a \in DOMAIN Graph, b \in DOMAIN Graph, c \in Names \ DOMAIN Graph :
          /\ a # b
          /\ c \in ChildNames(Nodes[Graph[a]]) \cap ChildNames(Nodes[Graph[b]])
          /\ c \in Range(sortRes[1].list)

\* C28: when the foreign keys form a cycle among distinct tables,
\* GetTablesOrdered returns an error before the topological sort (its list is
\* empty), and the run ends with no truncation and no table load: no
\* TruncateAllTables call, no WriteTable call, no table skipped or changed.
C28_CycleStopsRun ==
    (HasCycle(G) /\ mainPc # "start")
    => /\ mainPc = "done"
       /\ orderedRes[1].err \in {"getFKeys", "graph is not acyclic"}
       /\ orderedRes[1].ret = <<>>
       /\ tr = TrIdle /\ wt = WtIdle /\ callSeq = <<>> /\ loaded = {}
       /\ \A t \in LoadTables : res[t] = NoCall /\ rows[t] = committed[t]

\* C28 witness: a run that asked for truncation ended on the cycle 1 -> 2 -> 3 -> 1
\* with the tables still holding their rows.
C28_Witness ==
    /\ mainPc = "done" /\ conf.TruncateAllCommand
    /\ orderedRes[1].err = "graph is not acyclic"
    /\ {<<1, 2>>, <<2, 3>>, <<3, 1>>} \subseteq Edges(G)
    /\ \A t \in LoadTables : rows[t] > 0

-----------------------------------------------------------------------------
(* Properties of FieldMapper.Transform *)

\* The column is of a type Transform converts
Supported(column) ==
    \/ column.OriginalType \in ListedTypes
    \/ column.OriginalType = "USER-DEFINED" /\ column.ExpectedExportedType = "binary (UTF8)"

\* C29: Transform on a non-null cell panics exactly when the column's original
\* type is none of the listed types and not USER-DEFINED with the expected
\* type binary (UTF8); a call that panics returns no value, and a null cell
\* gives nil for every column.
C29_PanicOnUnknownType ==
    fn.pc = "done"
    => /\ ~fn.x.null => (fn.out.panic <=> ~Supported(fn.column))
       /\ fn.out.panic => fn.out.value = <<>>
       /\ fn.x.null => fn.out = Returned(GoNil)

\* C29 witness: a USER-DEFINED column whose expected type is not binary (UTF8)
\* made Transform panic on a non-null cell.
C29_Witness ==
    /\ fn.pc = "done" /\ ~fn.x.null /\ fn.out.panic
    /\ fn.column.OriginalType = "USER-DEFINED"

\* The exit code of the process once main has ended: main returns from every
\* error branch and from the end of its loop alike, and a Go program whose
\* main returns exits with 0; a panic that nothing recovers exits with 2.
ExitCode == IF mainPc = "crashed" THEN 2 ELSE 0

\* A fatal error happened in the run: GetTablesOrdered or TruncateAllTables
\* returned an error, or a WriteTable call returned an error or did not commit.
FatalError ==
    \/ orderedRes # <<>> /\ orderedRes[1].err # "nil"
    \/ tr.err
    \/ \E t \in Range(callSeq) : res[t].err \/ res[t].tx # "committed"

\* C31: when the process has ended with exit code 0, no fatal error happened
\* and the transaction of every table that was not skipped committed.
\* The code breaks it: main logs each of these errors and returns, nowhere
\* does it call os.Exit with a non-zero code, so the exit code is 0.
C31_ExitCodeZeroOnlyOnSuccess ==
    (mainPc \in {"done", "crashed"} /\ ExitCode = 0) => ~FatalError

\* The place of a statement in the course of WriteTable
StepRank(step) ==
    CASE step = "findIndexes" -> 1
      [] step = "findConstrains" -> 2
      [] step = "Begin" -> 3
      [] step = "SET CONSTRAINTS ALL DEFERRED" -> 4
      [] step = "DISABLE TRIGGER ALL" -> 5
      [] step = "DROP CONSTRAINT" -> 6
      [] step = "DROP INDEX" -> 7
      [] step = "COPY" -> 8
      [] step = "CREATE INDEX" -> 9
      [] step = "ADD CONSTRAINT" -> 10
      [] step = "ENABLE TRIGGER ALL" -> 11
      [] step = "Commit" -> 12
      [] step = "Rollback" -> 13

Times(n, step) == [k \in 1..n |-> step]

\* C33: the statements of a WriteTable call go out in one order: the lookup of
\* the indexes and of the constraints, Begin, SET CONSTRAINTS ALL DEFERRED,
\* DISABLE TRIGGER ALL, the DROP CONSTRAINTs, the DROP INDEXes, the COPYs, the
\* CREATE INDEXes, the ADD CONSTRAINTs, ENABLE TRIGGER ALL, Commit.  The places
\* of the statements sent never decrease, and only the drops, copies and
\* restores are sent more than once; the five opening statements are sent in
\* their places, a drop, copy or restore after all five, Commit right after
\* ENABLE TRIGGER ALL, Rollback after Begin.  While nothing failed the call
\* that reaches Commit has sent one drop and one restore for every index and
\* constraint it handles.  Up to the copy step the table holds the rows it
\* held before the call, and a call whose lookup failed has no transaction.
C33_StepOrder ==
    LET s == wt.steps
        cons == {i \in 1..Len(wt.constraints) : ~MatchPrimary(wt.constraints[i])}
        adds == {i \in cons : ~MatchCon(wt.constraints[i])}
        idxs == {i \in 1..Len(wt.indexInfos) : ~MatchIdx(wt.indexInfos[i])}
        head == <<"findIndexes", "findConstrains", "Begin",
                  "SET CONSTRAINTS ALL DEFERRED", "DISABLE TRIGGER ALL">>
        drops == head \o Times(Cardinality(cons), "DROP CONSTRAINT")
                 \o Times(Cardinality(idxs), "DROP INDEX")
        tail == Times(Cardinality(idxs), "CREATE INDEX")
                \o Times(Cardinality(adds), "ADD CONSTRAINT")
                \o <<"ENABLE TRIGGER ALL">>
    IN /\ \A i \in 1..Len(s) :
            LET r == StepRank(s[i])
            IN /\ i > 1 => /\ StepRank(s[i - 1]) <= r
                           /\ StepRank(s[i - 1]) = r => r \in 6..10
               /\ r <= 5 => i = r
               /\ r \in 6..13 => i > 3 /\ s[3] = "Begin"
               /\ r \in 6..12 => i > 5 /\ s[5] = "DISABLE TRIGGER ALL"
               /\ r = 12 => s[i - 1] = "ENABLE TRIGGER ALL"
       /\ (wt.pc \in {"writeTableData", "files"} /\ ~wt.stmtFailed)
          => /\ Len(s) >= Len(drops)
             /\ s = drops \o Times(Len(s) - Len(drops), "COPY")
       /\ (wt.pc = "commit" /\ ~wt.stmtFailed)
          => /\ Len(s) >= Len(drops) + Len(tail)
             /\ s = drops \o Times(Len(s) - Len(drops) - Len(tail), "COPY") \o tail
       /\ (wt.pc \in {"getIndexList", "getConstraintList", "begin", "deferConstraints",
                      "disableTriggers", "dropIndexes", "writeTableData"})
          => rows[T] = wt.before
       /\ (wt.pc = "returned" /\ s # <<>> /\ StepRank(s[Len(s)]) <= 2)
          => wt.err /\ res[T].tx = "none" /\ rows[T] = wt.before

\* C33 witness: a call committed after it dropped two constraints and an index,
\* copied two files and restored the index and the foreign key.
C33_Witness ==
    /\ wt.pc = "returned" /\ res[T].tx = "committed"
    /\ \E k \in 2..Len(wt.steps) :
         wt.steps = <<"findIndexes", "findConstrains", "Begin",
                      "SET CONSTRAINTS ALL DEFERRED", "DISABLE TRIGGER ALL",
                      "DROP CONSTRAINT", "DROP CONSTRAINT", "DROP INDEX">> \o Times(k, "COPY")
                    \o <<"CREATE INDEX", "ADD CONSTRAINT", "ENABLE TRIGGER ALL", "Commit">>

\* C37: a WriteTable call in which the listing of the table's data files
\* failed returns an error, and its transaction is rolled back and not
\* committed.
\* The code breaks it: writeTableData assigns the error of
\* ListFilesRecursively and never reads it; with the empty list it returns
\* (0, nil), and WriteTable restores the indexes and commits.
C37_ListErrorRollsBack ==
    (wt.pc = "returned" /\ wt.listErr)
    => (wt.err /\ res[T].tx = "rolledback" /\ ~wt.commitCalled)

-----------------------------------------------------------------------------
(* Properties of the identifier functions *)

\* The identifiers a dotted sequence of quoted identifiers names, as SQL reads
\* it (a doubled quote inside the quotes is one quote); <<"bad">> when the
\* text is no such sequence.
RECURSIVE ReadQuoted(_, _)
ReadQuoted(text, part) ==
    IF text = <<>> THEN <<"bad">>
    ELSE IF text[1] # Quote THEN ReadQuoted(Tail(text), Append(part, text[1]))
    ELSE IF Len(text) >= 2 /\ text[2] = Quote
         THEN ReadQuoted(SubSeq(text, 3, Len(text)), Append(part, Quote))
    ELSE IF Len(text) = 1 THEN <<part>>
    ELSE IF text[2] = Dot /\ Len(text) >= 3 /\ text[3] = Quote
         THEN LET rest == ReadQuoted(SubSeq(text, 4, Len(text)), <<>>)
              IN IF rest = <<"bad">> THEN rest ELSE <<part>> \o rest
    ELSE <<"bad">>

ReadIdentifiers(text) ==
    IF text = <<>> \/ text[1] # Quote THEN <<"bad">>
    ELSE ReadQuoted(Tail(text), <<>>)

DotCount(s) == Cardinality({i \in 1..Len(s) : s[i] = Dot})

====
